---- MODULE Spec2Model ----
(***************************************************************************)
(* Verification model of the Sibyl tagging core.                           *)
(*                                                                         *)
(* Part 1: the circuit breaker and its process-wide registry               *)
(* (src/src/shared/utils/routing.ts, lines 66-239).                        *)
(*                                                                         *)
(* The program runs on one JavaScript event loop.  An `execute` call is    *)
(* two atomic steps: the synchronous prefix up to `await fn()` (admission  *)
(* check, lazy OPEN -> HALF_OPEN transition, invocation of fn) and the     *)
(* continuation after the await (onSuccess / onFailure, then return or     *)
(* rethrow).  Calls of different tasks interleave between the two steps.   *)
(* Date.now() is the variable `now`, advanced by Tick.                     *)
(***************************************************************************)
EXTENDS Integers, Sequences, FiniteSets, TLC

\* ------------------------------------------------------------------ bounds

\* Date.now() ranges over 0..MaxTime.
MaxTime == 4

\* Cap on failureCount (the counter is unbounded in the code).
MaxCount == 5

\* Concurrent tasks calling the breaker (records of one SQS batch).
Callers == {"t1", "t2"}

\* Dependency names used with the registry.
Names == {"bedrock", "gemini"}

\* ------------------------------------------------- constructor defaults

DefaultFailureThreshold == 5
DefaultSuccessThreshold == 2
DefaultTimeout == 60000

\* Partial<CircuitBreakerConfig> inputs; 0 stands for an omitted (or zero)
\* field, which `||` replaces by the default.
ConfigInputs ==
    { [failureThreshold |-> 1, successThreshold |-> 1, timeout |-> 1],
      [failureThreshold |-> 2, successThreshold |-> 0, timeout |-> 2],
      [failureThreshold |-> 0, successThreshold |-> 1, timeout |-> 0] }

\* ------------------------------------------------------ errors, outcomes

NoError == [name |-> "", message |-> "", service |-> ""]

\* new CircuitBreakerError(`Circuit breaker ${name} is OPEN`, name)
CircuitBreakerError(name) ==
    [name |-> "CircuitBreakerError", message |-> "Circuit breaker is OPEN",
     service |-> name]

\* Errors the wrapped operation may raise.
OpErrors ==
    { [name |-> "Error", message |-> "service down", service |-> ""],
      [name |-> "ThrottlingException", message |-> "rate exceeded", service |-> ""] }

Pending == [kind |-> "pending", value |-> "", error |-> NoError]
Resolved(v) == [kind |-> "resolved", value |-> v, error |-> NoError]
Rejected(e) == [kind |-> "rejected", value |-> "", error |-> e]

\* What the promise returned by fn() can settle to.
FnOutcomes == {Resolved("ok")} \cup {Rejected(e) : e \in OpErrors}

\* ------------------------------------------------------------- log events

LogEvent(level, msg, name) == [level |-> level, msg |-> msg, circuit_breaker |-> name]

\* ------------------------------------------------- CircuitBreaker (pure)

\* constructor, this.config
CircuitBreakerConfig(name, config) ==
    [name |-> name,
     failureThreshold |-> IF config.failureThreshold # 0 THEN config.failureThreshold
                          ELSE DefaultFailureThreshold,
     successThreshold |-> IF config.successThreshold # 0 THEN config.successThreshold
                          ELSE DefaultSuccessThreshold,
     timeout |-> IF config.timeout # 0 THEN config.timeout ELSE DefaultTimeout]

\* constructor / reset, this.state
CircuitBreakerState(t) ==
    [state |-> "CLOSED", failureCount |-> 0, successCount |-> 0, nextAttempt |-> t]

\* new CircuitBreaker(name, config) at time t
CircuitBreaker(name, config, t) ==
    [cb |-> [config |-> CircuitBreakerConfig(name, config), state |-> CircuitBreakerState(t)],
     log |-> << LogEvent("info", "Circuit breaker initialized", name) >>]

\* (variant of rejects: the comparison with nextAttempt inverted)
rejectsInverted(b, t) ==
    b.state.state = "OPEN" /\ t >= b.state.nextAttempt

\* execute: the OPEN check that rejects the call
rejects(b, t) ==
    b.state.state = "OPEN" /\ t < b.state.nextAttempt

\* (variant of admit: successCount is not cleared on entering HALF_OPEN)
admitKeepCount(b, t) ==
    IF b.state.state = "OPEN"
    THEN [cb |-> [b EXCEPT !.state.state = "HALF_OPEN"],
          log |-> << LogEvent("info", "Circuit breaker transitioning to HALF_OPEN",
                              b.config.name) >>]
    ELSE [cb |-> b, log |-> << >>]

\* execute: the synchronous prefix for a call that is not rejected
admit(b, t) ==
    IF b.state.state = "OPEN"
    THEN [cb |-> [b EXCEPT !.state.state = "HALF_OPEN", !.state.successCount = 0],
          log |-> << LogEvent("info", "Circuit breaker transitioning to HALF_OPEN",
                              b.config.name) >>]
    ELSE [cb |-> b, log |-> << >>]

\* (variant of onSuccess: successCount is left as it is on closing)
onSuccessKeepCount(b) ==
    LET b1 == [b EXCEPT !.state.failureCount = 0] IN
    IF b1.state.state = "HALF_OPEN"
    THEN LET b2 == [b1 EXCEPT !.state.successCount = @ + 1] IN
         IF b2.state.successCount >= b2.config.successThreshold
         THEN [cb |-> [b2 EXCEPT !.state.state = "CLOSED"], log |-> << >>]
         ELSE [cb |-> b2, log |-> << >>]
    ELSE [cb |-> b1, log |-> << >>]

\* (variant of onSuccess: failureCount is cleared only on closing from HALF_OPEN)
onSuccessKeepFailures(b) ==
    IF b.state.state = "HALF_OPEN"
    THEN LET b2 == [b EXCEPT !.state.successCount = @ + 1] IN
         IF b2.state.successCount >= b2.config.successThreshold
         THEN [cb |-> [b2 EXCEPT !.state.state = "CLOSED", !.state.successCount = 0,
                                 !.state.failureCount = 0],
               log |-> << >>]
         ELSE [cb |-> b2, log |-> << >>]
    ELSE [cb |-> b, log |-> << >>]

\* (variant of onSuccess: failureCount is cleared only by a success in CLOSED)
onSuccessClosedOnly(b) ==
    IF b.state.state = "HALF_OPEN"
    THEN LET b2 == [b EXCEPT !.state.successCount = @ + 1]
             l2 == << LogEvent("debug", "Circuit breaker success in HALF_OPEN",
                               b.config.name) >>
         IN IF b2.state.successCount >= b2.config.successThreshold
            THEN [cb |-> [b2 EXCEPT !.state.state = "CLOSED", !.state.successCount = 0],
                  log |-> l2 \o << LogEvent("info",
                                    "Circuit breaker CLOSED after successful recovery",
                                    b.config.name) >>]
            ELSE [cb |-> b2, log |-> l2]
    ELSE IF b.state.state = "CLOSED"
         THEN [cb |-> [b EXCEPT !.state.failureCount = 0], log |-> << >>]
         ELSE [cb |-> b, log |-> << >>]

\* (variant of onSuccess: every state other than CLOSED is treated as HALF_OPEN)
onSuccessNotClosed(b) ==
    LET b1 == [b EXCEPT !.state.failureCount = 0] IN
    IF b1.state.state # "CLOSED"
    THEN LET b2 == [b1 EXCEPT !.state.successCount = @ + 1]
             l2 == << LogEvent("debug", "Circuit breaker success in HALF_OPEN",
                               b.config.name) >>
         IN IF b2.state.successCount >= b2.config.successThreshold
            THEN [cb |-> [b2 EXCEPT !.state.state = "CLOSED", !.state.successCount = 0],
                  log |-> l2 \o << LogEvent("info",
                                    "Circuit breaker CLOSED after successful recovery",
                                    b.config.name) >>]
            ELSE [cb |-> b2, log |-> l2]
    ELSE [cb |-> b1, log |-> << >>]

\* onSuccess
onSuccess(b) ==
    LET b1 == [b EXCEPT !.state.failureCount = 0] IN
    IF b1.state.state = "HALF_OPEN"
    THEN LET b2 == [b1 EXCEPT !.state.successCount = @ + 1]
             l2 == << LogEvent("debug", "Circuit breaker success in HALF_OPEN",
                               b.config.name) >>
         IN IF b2.state.successCount >= b2.config.successThreshold
            THEN [cb |-> [b2 EXCEPT !.state.state = "CLOSED", !.state.successCount = 0],
                  log |-> l2 \o << LogEvent("info",
                                    "Circuit breaker CLOSED after successful recovery",
                                    b.config.name) >>]
            ELSE [cb |-> b2, log |-> l2]
    ELSE [cb |-> b1, log |-> << >>]

\* (variant of tripBreaker: the opening is not logged)
tripBreakerSilent(b, t) ==
    [cb |-> [b EXCEPT !.state.state = "OPEN",
                      !.state.nextAttempt = t + b.config.timeout],
     log |-> << >>]

\* tripBreaker
tripBreaker(b, t) ==
    [cb |-> [b EXCEPT !.state.state = "OPEN",
                      !.state.nextAttempt = t + b.config.timeout],
     log |-> << LogEvent("error", "Circuit breaker OPENED due to failures",
                         b.config.name) >>]

\* (variant of onFailure: trips only above the threshold)
onFailureStrict(b, t) ==
    LET b1 == [b EXCEPT !.state.failureCount = @ + 1]
        l1 == << LogEvent("warn", "Circuit breaker failure recorded", b.config.name) >>
    IN IF b1.state.state = "HALF_OPEN"
       THEN [cb |-> tripBreaker(b1, t).cb, log |-> l1 \o tripBreaker(b1, t).log]
       ELSE IF b1.state.failureCount > b1.config.failureThreshold
            THEN [cb |-> tripBreaker(b1, t).cb, log |-> l1 \o tripBreaker(b1, t).log]
            ELSE [cb |-> b1, log |-> l1]

\* (variant of onFailure: HALF_OPEN is not treated apart from CLOSED)
onFailureThresholdOnly(b, t) ==
    LET b1 == [b EXCEPT !.state.failureCount = @ + 1]
        l1 == << LogEvent("warn", "Circuit breaker failure recorded", b.config.name) >>
    IN IF b1.state.failureCount >= b1.config.failureThreshold
       THEN [cb |-> tripBreaker(b1, t).cb, log |-> l1 \o tripBreaker(b1, t).log]
       ELSE [cb |-> b1, log |-> l1]

\* onFailure
onFailure(b, t) ==
    LET b1 == [b EXCEPT !.state.failureCount = @ + 1]
        l1 == << LogEvent("warn", "Circuit breaker failure recorded", b.config.name) >>
    IN IF b1.state.state = "HALF_OPEN"
       THEN [cb |-> tripBreaker(b1, t).cb, log |-> l1 \o tripBreaker(b1, t).log]
       ELSE IF b1.state.failureCount >= b1.config.failureThreshold
            THEN [cb |-> tripBreaker(b1, t).cb, log |-> l1 \o tripBreaker(b1, t).log]
            ELSE [cb |-> b1, log |-> l1]

\* execute: the continuation after `await fn()`: state update for the outcome
settle(b, o, t) ==
    IF o.kind = "resolved" THEN onSuccess(b) ELSE onFailure(b, t)

\* (variant of executeResult: the error of fn is wrapped in a new error)
executeResultWrapped(o) ==
    IF o.kind = "resolved" THEN Resolved(o.value)
    ELSE Rejected([name |-> "ProcessingError", message |-> o.error.message,
                   service |-> ""])

\* execute: what the caller gets for the outcome of fn (return result / throw error)
executeResult(o) ==
    IF o.kind = "resolved" THEN Resolved(o.value) ELSE Rejected(o.error)

\* execute: the rejection thrown while OPEN
executeRejection(b) ==
    [outcome |-> Rejected(CircuitBreakerError(b.config.name)),
     log |-> << LogEvent("warn", "Circuit breaker is OPEN, rejecting request",
                         b.config.name) >>]

\* getState
getState(b) ==
    [state |-> b.state.state, failureCount |-> b.state.failureCount,
     successCount |-> b.state.successCount]

\* (variant of reset: failureCount survives the reset)
resetKeepFailures(b, t) ==
    [cb |-> [b EXCEPT !.state.state = "CLOSED", !.state.successCount = 0,
                      !.state.nextAttempt = t],
     log |-> << LogEvent("info", "Circuit breaker reset", b.config.name) >>]

\* reset
reset(b, t) ==
    [cb |-> [b EXCEPT !.state = CircuitBreakerState(t)],
     log |-> << LogEvent("info", "Circuit breaker reset", b.config.name) >>]

\* (variant of getCircuitBreaker: no has() check, every call creates and registers)
getCircuitBreakerAlwaysNew(reg, objs, name, config, t) ==
    [reg |-> [reg EXCEPT ![name] = Len(objs) + 1],
     objs |-> Append(objs, CircuitBreaker(name, config, t).cb),
     log |-> CircuitBreaker(name, config, t).log,
     ret |-> Len(objs) + 1]

\* getCircuitBreaker: the registry and heap after the call, and the instance returned.
\* reg maps a name to the index of its instance in objs (0: no entry).
getCircuitBreaker(reg, objs, name, config, t) ==
    IF reg[name] = 0
    THEN [reg |-> [reg EXCEPT ![name] = Len(objs) + 1],
          objs |-> Append(objs, CircuitBreaker(name, config, t).cb),
          log |-> CircuitBreaker(name, config, t).log,
          ret |-> Len(objs) + 1]
    ELSE [reg |-> reg, objs |-> objs, log |-> << >>, ret |-> reg[name]]

\* ------------------------------------------------------- retry engine

\* Bounds of the retry model.
MaxAttempts == 3      \* the largest maxAttempts a caller passes
RandomSteps == 2      \* Math.random() returns k / RandomSteps, k in 0 .. RandomSteps - 1

\* Error names are sequences of words, so that String.prototype.includes is a
\* search for a contiguous subsequence ("ServiceUnavailableException" includes
\* "ServiceUnavailable").
ThrottlingException == << "Throttling", "Exception" >>
ServiceUnavailable == << "Service", "Unavailable" >>
InternalServerError == << "Internal", "Server", "Error" >>
RequestTimeout == << "Request", "Timeout" >>
ECONNRESET == << "ECONNRESET" >>
ETIMEDOUT == << "ETIMEDOUT" >>
NetworkError == << "Network", "Error" >>
ServiceUnavailableException == << "Service", "Unavailable", "Exception" >>
PermissionDenied == << "Permission", "Denied" >>

\* A number with a fractional part, as a quotient of two naturals.
Whole(n) == [num |-> n, den |-> 1]

DEFAULT_RETRY_CONFIG ==
    [ maxAttempts       |-> 3,
      initialDelayMs    |-> 1000,
      maxDelayMs        |-> 30000,
      backoffMultiplier |-> Whole(2),
      retryableErrors   |-> << ThrottlingException, ServiceUnavailable, InternalServerError,
                               RequestTimeout, ECONNRESET, ETIMEDOUT, NetworkError >> ]

\* { ...DEFAULT_RETRY_CONFIG, ...config }: the keys config has win.
mergeConfig(config) ==
    [k \in DOMAIN DEFAULT_RETRY_CONFIG |->
        IF k \in DOMAIN config THEN config[k] ELSE DEFAULT_RETRY_CONFIG[k]]

\* The Partial<RetryConfig> values callers pass: any subset of the keys of
\* these configs.
GivenConfigs ==
    [ maxAttempts       : 0..MaxAttempts,
      initialDelayMs    : {0, 5},
      maxDelayMs        : {7},
      backoffMultiplier : {[num |-> 3, den |-> 2]},
      retryableErrors   : {<< ThrottlingException >>, << >>} ]

RetryConfigInputs ==
    { [k \in keys |-> g[k]] : g \in GivenConfigs, keys \in SUBSET DOMAIN DEFAULT_RETRY_CONFIG }

\* What an invocation of operation settles to. An error is an object: its name
\* and the invocation that created it.
Undefined == [name |-> << >>, id |-> 0]
Unsettled == [kind |-> "pending", value |-> 0, error |-> Undefined]
Returned(v) == [kind |-> "resolved", value |-> v, error |-> Undefined]
Threw(e) == [kind |-> "rejected", value |-> 0, error |-> e]

ErrorNames == {ThrottlingException, ServiceUnavailableException, PermissionDenied}

OperationOutcomes(n) ==
    {Returned(n)} \cup {Threw([name |-> nm, id |-> n]) : nm \in ErrorNames}

includesAnyWord(s, sub) ==
    \E i \in 1..Len(s), j \in 1..Len(sub) : s[i] = sub[j]

\* String.prototype.includes
includes(s, sub) ==
    \E i \in 0..(Len(s) - Len(sub)) : SubSeq(s, i + 1, i + Len(sub)) = sub

isRetryableAlways(config, error) ==
    TRUE

\* retryableErrors?.some(errorName => lastError.name.includes(errorName))
isRetryable(config, error) ==
    \E i \in 1..Len(config.retryableErrors) : includes(error.name, config.retryableErrors[i])

giveUpOneEarly(config, n, error) ==
    ~isRetryable(config, error) \/ n + 1 >= config.maxAttempts

\* !isRetryable || attempt === finalConfig.maxAttempts
giveUp(config, n, error) ==
    ~isRetryable(config, error) \/ n = config.maxAttempts

RECURSIVE pow(_, _)
pow(b, n) == IF n = 0 THEN 1 ELSE b * pow(b, n - 1)

baseDelayUncapped(config, n) ==
    [ num |-> config.initialDelayMs * pow(config.backoffMultiplier.num, n - 1),
      den |-> pow(config.backoffMultiplier.den, n - 1) ]

\* Math.min(initialDelayMs * Math.pow(backoffMultiplier, attempt - 1), maxDelayMs)
baseDelay(config, n) ==
    LET grown == [ num |-> config.initialDelayMs * pow(config.backoffMultiplier.num, n - 1),
                   den |-> pow(config.backoffMultiplier.den, n - 1) ]
    IN  IF grown.num <= config.maxDelayMs * grown.den THEN grown ELSE Whole(config.maxDelayMs)

delayJitter30(config, n, k) ==
    LET base == baseDelay(config, n) IN
    (base.num * (10 * RandomSteps + 3 * k)) \div (base.den * 10 * RandomSteps)

\* Math.floor(baseDelay + Math.random() * baseDelay * 0.1), Math.random() = k / RandomSteps:
\* base * (1 + k / (10 * RandomSteps)), rounded down.
delay(config, n, k) ==
    LET base == baseDelay(config, n) IN
    (base.num * (10 * RandomSteps + k)) \div (base.den * 10 * RandomSteps)

retryRejectionWrapped(error) ==
    Threw([name |-> << "Retry", "Error" >>, id |-> error.id])

\* throw lastError
retryRejection(error) ==
    Threw(error)

retryResolutionFirst(o) ==
    Returned(1)

\* return await operation()
retryResolution(o) ==
    o

\* ---------------------------------------- confidences, taxonomy, routing

\* Bounds of the tagging and routing models.
MaxTags == 2          \* the longest tag list a model returns or a caller passes
MaxFrames == 2        \* the largest number of frames of a video
MaxCandidates == 3    \* the longest list passed to validateTags directly

\* Confidences and thresholds are quotients of naturals, compared and added exactly.
QLess(a, b) == a.num * b.den < b.num * a.den
QEqual(a, b) == a.num * b.den = b.num * a.den
QAdd(a, b) == [num |-> a.num * b.den + b.num * a.den, den |-> a.den * b.den]
Tenths(n) == [num |-> n, den |-> 10]

\* The flat tag lists a deployed taxonomy file may hold.
Taxonomies == { << "sports", "news" >>, << "news", "Sports", "politics" >> }

\* Tag names a model may return: members, a case variant, and one in no taxonomy.
TagNames == {"sports", "Sports", "news", "aliens"}

\* The { tag, confidence } entries of a text model's answer.
ModelTagResults ==
    { [tag |-> "sports", confidence |-> Tenths(9)],
      [tag |-> "sports", confidence |-> Tenths(7)],
      [tag |-> "Sports", confidence |-> Tenths(9)],
      [tag |-> "news", confidence |-> Tenths(9)],
      [tag |-> "aliens", confidence |-> Tenths(7)] }

\* The { tag, confidence } entries routeContent is called with: confidences below,
\* at (17/20 = 85/100) and above the usual threshold.
TagResults ==
    [tag : {"sports", "news"}, confidence : {Tenths(7), [num |-> 17, den |-> 20], Tenths(9)}]

RECURSIVE SeqsUpTo(_, _)
SeqsUpTo(S, n) ==
    IF n = 0 THEN {<< >>}
    ELSE LET shorter == SeqsUpTo(S, n - 1) IN
         shorter \cup {Append(s, x) : s \in {t \in shorter : Len(t) = n - 1}, x \in S}

\* Array.prototype.includes
arrayIncludes(arr, x) == \E i \in 1..Len(arr) : arr[i] = x

\* Array.prototype.map(t => t.tag)
tagNamesOf(tags) == [i \in 1..Len(tags) |-> tags[i].tag]

RECURSIVE validateLoop(_, _, _, _)
validateLoop(tags, taxonomyTags, i, acc) ==
    IF i > Len(tags) THEN acc
    ELSE validateLoop(tags, taxonomyTags, i + 1,
            IF arrayIncludes(taxonomyTags, tags[i])
            THEN [acc EXCEPT !.valid = Append(@, tags[i])]
            ELSE [acc EXCEPT !.invalid = Append(@, tags[i])])

RECURSIVE validateLoopUnique(_, _, _, _)
validateLoopUnique(tags, taxonomyTags, i, acc) ==
    IF i > Len(tags) THEN acc
    ELSE validateLoopUnique(tags, taxonomyTags, i + 1,
            IF arrayIncludes(taxonomyTags, tags[i])
            THEN [acc EXCEPT !.valid = IF arrayIncludes(@, tags[i]) THEN @ ELSE Append(@, tags[i])]
            ELSE [acc EXCEPT !.invalid = Append(@, tags[i])])

validateTagsUnique(tags, taxonomyTags) ==
    validateLoopUnique(tags, taxonomyTags, 1, [valid |-> << >>, invalid |-> << >>])

\* validateTags(tags), taxonomyTags being what getTaxonomyTags() returns
validateTags(tags, taxonomyTags) ==
    validateLoop(tags, taxonomyTags, 1, [valid |-> << >>, invalid |-> << >>])

\* routing_reason, by the parts its template is filled with
Reason(text, k, n, threshold, listed, min) ==
    [text |-> text, k |-> k, n |-> n, threshold |-> threshold, listed |-> listed, min |-> min]

\* Number.prototype.toFixed(3): the nearest multiple of 1/1000, as thousandths
toFixed3(q) == (2 * 1000 * q.num + q.den) \div (2 * q.den)

RECURSIVE minConfidenceFrom(_, _, _)
minConfidenceFrom(tags, i, m) ==
    IF i > Len(tags) THEN m
    ELSE minConfidenceFrom(tags, i + 1, IF QLess(tags[i].confidence, m) THEN tags[i].confidence ELSE m)

maxConfidence(tags) ==
    LET RECURSIVE maxFrom(_, _)
        maxFrom(i, m) ==
            IF i > Len(tags) THEN m
            ELSE maxFrom(i + 1, IF QLess(m, tags[i].confidence) THEN tags[i].confidence ELSE m)
    IN  maxFrom(2, tags[1].confidence)

\* Math.min(...tags.map(t => t.confidence)), tags not empty
minConfidence(tags) == minConfidenceFrom(tags, 2, tags[1].confidence)

belowThresholdInclusive(tags, threshold) ==
    SelectSeq(tags, LAMBDA t : ~QLess(threshold, t.confidence))

\* tags.filter(t => t.confidence < threshold)
belowThreshold(tags, threshold) ==
    SelectSeq(tags, LAMBDA t : QLess(t.confidence, threshold))

belowReasonFirstOnly(below, tags, threshold) ==
    Reason("below confidence threshold", Len(below), Len(tags), threshold,
           << [tag |-> below[1].tag, confidence |-> below[1].confidence] >>, 0)

\* `${k} of ${n} tag(s) below confidence threshold ${threshold}: [tag(confidence), ...]`
belowReason(below, tags, threshold) ==
    Reason("below confidence threshold", Len(below), Len(tags), threshold,
           [i \in 1..Len(below) |-> [tag |-> below[i].tag, confidence |-> below[i].confidence]], 0)

\* `all ${n} tag(s) meet confidence threshold ${threshold} (min: ${min.toFixed(3)})`
meetReason(tags, threshold) ==
    Reason("meet confidence threshold", 0, Len(tags), threshold, << >>,
           toFixed3(minConfidence(tags)))

routeContent(tags, threshold) ==
    IF Len(tags) = 0
    THEN [ needs_review         |-> "true",
           source               |-> "ai",
           reviewed             |-> FALSE,
           routing_reason       |-> Reason("no valid taxonomy tags returned", 0, 0, threshold, << >>, 0),
           confidence_threshold |-> threshold,
           min_confidence       |-> Tenths(0) ]
    ELSE LET below == belowThreshold(tags, threshold)
             needsReview == Len(below) > 0
         IN  [ needs_review         |-> IF needsReview THEN "true" ELSE "false",
               source               |-> "ai",
               reviewed             |-> FALSE,
               routing_reason       |-> IF needsReview THEN belowReason(below, tags, threshold)
                                        ELSE meetReason(tags, threshold),
               confidence_threshold |-> threshold,
               min_confidence       |-> minConfidence(tags) ]

\* The decision of a record that was not routed.
NoDecision ==
    [ needs_review         |-> "",
      source               |-> "",
      reviewed             |-> FALSE,
      routing_reason       |-> Reason("", 0, 0, Tenths(0), << >>, 0),
      confidence_threshold |-> Tenths(0),
      min_confidence       |-> Tenths(0) ]

Thresholds == {Tenths(7), [num |-> 85, den |-> 100], Tenths(9)}

\* AppConfig.confidenceThreshold
ConfidenceThreshold == [num |-> 85, den |-> 100]

\* ------------------------------------------------------ frame aggregation

\* Every { tag, confidence } of every frame, in iteration order.
RECURSIVE occurrences(_)
occurrences(frameResults) ==
    IF Len(frameResults) = 0 THEN << >>
    ELSE Head(frameResults) \o occurrences(Tail(frameResults))

\* tagStats after one more occurrence: a Map keeps its keys in insertion order.
countOccurrence(tagStats, t) ==
    IF \E i \in 1..Len(tagStats) : tagStats[i].tag = t.tag
    THEN [i \in 1..Len(tagStats) |->
            IF tagStats[i].tag = t.tag
            THEN [tagStats[i] EXCEPT !.count = @ + 1,
                                     !.totalConfidence = QAdd(@, t.confidence)]
            ELSE tagStats[i]]
    ELSE Append(tagStats, [tag |-> t.tag, count |-> 1, totalConfidence |-> t.confidence])

RECURSIVE collectStats(_, _)
collectStats(occ, tagStats) ==
    IF Len(occ) = 0 THEN tagStats
    ELSE collectStats(Tail(occ), countOccurrence(tagStats, Head(occ)))

insertLast(sorted, t) ==
    Append(sorted, t)

\* Array.prototype.sort((a, b) => b.confidence - a.confidence): stable
insertByConfidence(sorted, t) ==
    LET after == {i \in 1..Len(sorted) : ~QLess(sorted[i].confidence, t.confidence)}
        n == Cardinality(after)
    IN  SubSeq(sorted, 1, n) \o << t >> \o SubSeq(sorted, n + 1, Len(sorted))

RECURSIVE sortByConfidence(_, _)
sortByConfidence(tags, sorted) ==
    IF Len(tags) = 0 THEN sorted
    ELSE sortByConfidence(Tail(tags), insertByConfidence(sorted, Head(tags)))

\* The default minFrameFraction
DefaultMinFrameFraction == [num |-> 2, den |-> 10]

\* (variant of aggregateFrameTags: frames without a tag do not count as frames)
aggregateFrameTagsNonEmpty(frameResults, minFrameFraction) ==
    LET totalFrames == Cardinality({f \in 1..Len(frameResults) : Len(frameResults[f]) > 0})
        tagStats == collectStats(occurrences(frameResults), << >>)
        kept == SelectSeq(tagStats, LAMBDA s :
                    s.count * minFrameFraction.den >= minFrameFraction.num * totalFrames)
        aggregated == [i \in 1..Len(kept) |->
                         [ tag |-> kept[i].tag,
                           confidence |-> [ num |-> kept[i].totalConfidence.num,
                                            den |-> kept[i].totalConfidence.den * kept[i].count ] ]]
    IN  IF totalFrames = 0 THEN << >> ELSE sortByConfidence(aggregated, << >>)

aggregateFrameTags(frameResults, minFrameFraction) ==
    LET totalFrames == Len(frameResults)
        tagStats == collectStats(occurrences(frameResults), << >>)
        kept == SelectSeq(tagStats, LAMBDA s :
                    s.count * minFrameFraction.den >= minFrameFraction.num * totalFrames)
        aggregated == [i \in 1..Len(kept) |->
                         [ tag |-> kept[i].tag,
                           confidence |-> [ num |-> kept[i].totalConfidence.num,
                                            den |-> kept[i].totalConfidence.den * kept[i].count ] ]]
    IN  IF totalFrames = 0 THEN << >> ELSE sortByConfidence(aggregated, << >>)

\* ------------------------------------------------------------ processors

keepAll(rawTags, validTagNames) ==
    rawTags

\* rawTags.filter(t => validTagNames.includes(t.tag))
keepValid(rawTags, validTagNames) ==
    SelectSeq(rawTags, LAMBDA t : arrayIncludes(validTagNames, t.tag))

\* logger.warn('HALLUCINATION DETECTED: ...', { invalid_tags, content_id, model })
Hallucination(invalid, content_id, model) ==
    [ level |-> "warn", message |-> "HALLUCINATION DETECTED", invalid_tags |-> invalid,
      content_id |-> content_id, model |-> model ]

\* config.bedrockModelId; the video processor's warning names no model
BedrockModelId == "claude"
NoModel == ""

\* The part of both processors from the model's answer to the tags they return.
taggedFrom(rawTags, taxonomyTags, content_id, model) ==
    LET v == validateTags(tagNamesOf(rawTags), taxonomyTags) IN
    [ validation |-> [input |-> tagNamesOf(rawTags), valid |-> v.valid, invalid |-> v.invalid],
      log        |-> IF Len(v.invalid) > 0
                     THEN << Hallucination(v.invalid, content_id, model) >> ELSE << >>,
      tags       |-> keepValid(rawTags, v.valid) ]

\* The per-frame tag lists Gemini returns for one frame.
FrameInputs ==
    { << >>,
      << [tag |-> "sports", confidence |-> Tenths(9)] >>,
      << [tag |-> "aliens", confidence |-> Tenths(9)], [tag |-> "sports", confidence |-> Tenths(7)] >>,
      << [tag |-> "news", confidence |-> Tenths(7)], [tag |-> "news", confidence |-> Tenths(9)] >>,
      << [tag |-> "Sports", confidence |-> Tenths(7)], [tag |-> "news", confidence |-> Tenths(9)] >> }

ContentIds == {"c1"}

NotProcessing ==
    [ processor |-> "", pc |-> "idle", content_id |-> "", rawTags |-> << >>,
      tags |-> << >>, routing |-> NoDecision ]

\* ------------------------------------------------------- frame sampling

\* Bounds of the frame model.
MaxDuration == 4      \* the longest video, in seconds, sampled sample by sample

\* The loop of sampleFrames is followed for at most this many samples.
MaxSamples == MaxDuration + 2

MAX_VIDEO_DURATION_SECONDS == 3600

\* (durationSeconds, intervalSeconds) of the calls: short videos with every
\* interval, zero and negative included, and videos at and above the cap.
SampleInputs ==
    ((0..MaxDuration) \X (-1..3))
        \cup { << MAX_VIDEO_DURATION_SECONDS, 1800 >>,
               << MAX_VIDEO_DURATION_SECONDS, MAX_VIDEO_DURATION_SECONDS >>,
               << MAX_VIDEO_DURATION_SECONDS + 1, 15 >> }

NotSampling ==
    [ pc |-> "idle", durationSeconds |-> 0, intervalSeconds |-> 0,
      frames |-> << >>, frameIndex |-> 0, timestamp |-> 0 ]

\* sampleFrames up to its loop: the duration check and the locals.
sampleFramesEnter(durationSeconds, intervalSeconds) ==
    [ pc              |-> IF durationSeconds > MAX_VIDEO_DURATION_SECONDS THEN "threw" ELSE "loop",
      durationSeconds |-> durationSeconds,
      intervalSeconds |-> intervalSeconds,
      frames          |-> << >>,
      frameIndex      |-> 0,
      timestamp       |-> 0 ]

sampleFramesLoopExclusive(s) ==
    IF s.timestamp < s.durationSeconds
    THEN [s EXCEPT !.frames = Append(@, [frameIndex |-> s.frameIndex, timestampSeconds |-> s.timestamp]),
                   !.frameIndex = @ + 1,
                   !.timestamp = @ + s.intervalSeconds]
    ELSE [s EXCEPT !.pc = "returned"]

\* One test of while (timestamp <= durationSeconds), and the body or the return.
sampleFramesLoop(s) ==
    IF s.timestamp <= s.durationSeconds
    THEN [s EXCEPT !.frames = Append(@, [frameIndex |-> s.frameIndex, timestampSeconds |-> s.timestamp]),
                   !.frameIndex = @ + 1,
                   !.timestamp = @ + s.intervalSeconds]
    ELSE [s EXCEPT !.pc = "returned"]

\* The minFrameFraction values callers pass (the default among them).
MinFrameFractions ==
    { DefaultMinFrameFraction, [num |-> 1, den |-> 2], [num |-> 3, den |-> 4], [num |-> 1, den |-> 1] }

NotAggregated ==
    [ called |-> FALSE, frameResults |-> << >>, minFrameFraction |-> DefaultMinFrameFraction,
      result |-> << >> ]

\* ------------------------------------------------------ taxonomy loader

possiblePaths ==
    << "/opt/data/taxonomy/taxonomy-v1.json",
       "cwd/data/taxonomy/taxonomy-v1.json",
       "cwd/../data/taxonomy/taxonomy-v1.json",
       "/Users/matthewrance/Documents/Sibyl/data/taxonomy/taxonomy-v1.json" >>

\* The paths a deployment or a checkout provides; the other two stay absent.
ProvidedPaths == {1, 2}

NoTaxonomy ==
    [version |-> "", flat_tag_list |-> << >>, synonym_mappings |-> [k \in {} |-> ""]]

\* Two taxonomy files that pass TaxonomySchema.
TaxonomyA ==
    [ version          |-> "1.0",
      flat_tag_list    |-> << "sports", "news" >>,
      synonym_mappings |-> [k \in {"footy"} |-> "sports"] ]

TaxonomyB ==
    [ version          |-> "1.1",
      flat_tag_list    |-> << "news", "Sports", "politics" >>,
      synonym_mappings |-> [k \in {"footy", "current-affairs"} |->
                               IF k = "footy" THEN "Sports" ELSE "news"] ]

\* What is at a path: nothing, a file that fails JSON.parse or TaxonomySchema.parse,
\* or a valid taxonomy file.
Missing == [kind |-> "missing", taxonomy |-> NoTaxonomy]
Invalid == [kind |-> "invalid", taxonomy |-> NoTaxonomy]
Valid(t) == [kind |-> "valid", taxonomy |-> t]

FileStates == {Missing, Invalid, Valid(TaxonomyA), Valid(TaxonomyB)}

RECURSIVE loadFrom(_, _)
loadFrom(files, i) ==
    IF i > Len(possiblePaths)
    THEN [ok |-> FALSE, taxonomy |-> NoTaxonomy, error |-> "Taxonomy file not found"]
    ELSE IF files[i].kind = "missing" THEN loadFrom(files, i + 1)
    ELSE IF files[i].kind = "valid"
    THEN [ok |-> TRUE, taxonomy |-> files[i].taxonomy, error |-> ""]
    ELSE [ok |-> FALSE, taxonomy |-> NoTaxonomy, error |-> "Invalid taxonomy file"]

\* loadTaxonomyFromFile(): the first path that exists is parsed; it is returned or
\* the call throws.
loadTaxonomyFromFile(files) == loadFrom(files, 1)

getTaxonomyAlwaysLoad(cache, files) ==
    LET r == loadTaxonomyFromFile(files) IN
    [ cache |-> IF r.ok THEN << r.taxonomy >> ELSE << >>,
      ok |-> r.ok, taxonomy |-> r.taxonomy, error |-> r.error, loaded |-> TRUE ]

getTaxonomyKeepStale(cache, files) ==
    IF cache = << >>
    THEN LET r == loadTaxonomyFromFile(files) IN
         [ cache |-> << r.taxonomy >>,
           ok |-> TRUE, taxonomy |-> r.taxonomy, error |-> r.error, loaded |-> TRUE ]
    ELSE [ cache |-> cache, ok |-> TRUE, taxonomy |-> cache[1], error |-> "", loaded |-> FALSE ]

\* getTaxonomy(): the cache when it is not null, else load and (when that returns)
\* cache.
getTaxonomy(cache, files) ==
    IF cache = << >>
    THEN LET r == loadTaxonomyFromFile(files) IN
         [ cache |-> IF r.ok THEN << r.taxonomy >> ELSE << >>,
           ok |-> r.ok, taxonomy |-> r.taxonomy, error |-> r.error, loaded |-> TRUE ]
    ELSE [ cache |-> cache, ok |-> TRUE, taxonomy |-> cache[1], error |-> "", loaded |-> FALSE ]

\* A JavaScript value read from an object: undefined, or a value with its text.
JsUndefined == [defined |-> FALSE, text |-> ""]
JsValue(text) == [defined |-> TRUE, text |-> text]

\* Properties every plain object inherits from Object.prototype.
ObjectPrototype == {"constructor", "toString", "hasOwnProperty"}

\* obj[key] on the plain object the schema parse returns: an own property, else
\* an inherited one, else undefined.
getProperty(obj, key) ==
    IF key \in DOMAIN obj THEN JsValue(obj[key])
    ELSE IF key \in ObjectPrototype THEN JsValue("[Function]")
    ELSE JsUndefined

\* if (value): undefined and '' are falsy
truthy(v) == v.defined /\ v.text # ""

\* getCanonicalTag(tagOrSynonym), on a loaded taxonomy
getCanonicalTag(taxonomy, tagOrSynonym) ==
    IF truthy(getProperty(taxonomy.synonym_mappings, tagOrSynonym))
    THEN [outcome |-> "returned", text |-> getProperty(taxonomy.synonym_mappings, tagOrSynonym).text,
          error |-> ""]
    ELSE IF arrayIncludes(taxonomy.flat_tag_list, tagOrSynonym)
    THEN [outcome |-> "returned", text |-> tagOrSynonym, error |-> ""]
    ELSE [outcome |-> "threw", text |-> "", error |-> "not found in taxonomy"]

\* The arguments getCanonicalTag is called with.
TagOrSynonymInputs == {"footy", "current-affairs", "sports", "news", "aliens", "constructor"}

\* A call of a loader function and how it ended.
TaxonomyCall(op, tag, tags, outcome, taxonomy, text, valid, invalid, error, loaded) ==
    [ op |-> op, tag |-> tag, tags |-> tags, outcome |-> outcome, taxonomy |-> taxonomy,
      text |-> text, valid |-> valid, invalid |-> invalid, error |-> error, loaded |-> loaded ]

NoTaxonomyCall == TaxonomyCall("", "", << >>, "none", << >>, "", << >>, << >>, "", FALSE)

\* ----------------------------------------------- logger, SQS handlers (pure)

\* The message payloads of one SQS batch, in the order of event.Records.
Batch ==
    << [trace_id |-> "tr1", content_id |-> "c1"],
       [trace_id |-> "tr2", content_id |-> "c2"] >>

Records == 1..Len(Batch)

\* Errors that end the processing of a record: the breaker's rejection, and a
\* failure of the model call.
RecordErrors == {"CircuitBreakerError", "ProcessingError"}

\* Logger.context = {}
EmptyContext == << >>

\* { ...a, ...b }: the keys b has win
spread(a, b) ==
    [k \in (DOMAIN a) \cup (DOMAIN b) |-> IF k \in DOMAIN b THEN b[k] ELSE a[k]]

\* Logger.setContext: this.context = { ...this.context, ...context }
setContext(context, given) == spread(context, given)

\* Logger.clearContext: this.context = {}
clearContext(context) == EmptyContext

\* Logger.log: the entry written, context: { ...this.context, ...context }.
\* by is the record whose processRecord call made the entry (0: the handler).
logEntry(context, message, given, by) ==
    [message |-> message, context |-> spread(context, given), by |-> by]

\* entry.context[key], "" when the key is absent
contextField(entry, key) ==
    IF key \in DOMAIN entry.context THEN entry.context[key] ELSE ""

\* setLambdaContext(context.awsRequestId, ...)
setLambdaContext(context) == setContext(context, [aws_request_id |-> "req"])

\* processRecord up to its first await: parse the payload, logger.setContext,
\* logger.info('Processing ... content'). The logger and log after it.
processRecordEnter(context, log, r) ==
    LET c2 == setContext(context, [trace_id |-> Batch[r].trace_id,
                                   content_id |-> Batch[r].content_id])
    IN [context |-> c2, log |-> Append(log, logEntry(c2, "Processing content", << >>, r))]

\* event.Records.map((record) => processRecord(record.body)): every call runs up
\* to its first await before the next one starts, records r..Len(Batch).
RECURSIVE mapProcessRecord(_, _, _)
mapProcessRecord(context, log, r) ==
    IF r > Len(Batch) THEN [context |-> context, log |-> log]
    ELSE LET s == processRecordEnter(context, log, r)
         IN mapProcessRecord(s.context, s.log, r + 1)

NoHandler == [kind |-> "", pc |-> "idle"]

\* How the handler invocation ends once every record is settled: the text handler
\* counts the results of Promise.allSettled, the video handler has caught every
\* error; both return.
handlerOutcome(settled) == "returned"

\* --------------------------------------- breaker.execute(retryWithBackoff)

NotRetrying == [pc |-> "idle", attempt |-> 0]

\* (variant of recordsOutcome: every failed attempt is recorded on the breaker)
recordsOutcomeEach(o, ended) == ended \/ o.kind = "rejected"

\* Whether the breaker's continuation after `await fn()` runs when an attempt of
\* the retry inside fn settles to o: only when retryWithBackoff itself ended.
recordsOutcome(o, ended) == ended

\* ------------------------------------------------------------------ state

VARIABLES
    now,              \* Date.now()
    circuitBreakers,  \* the registry Map: name -> instance (index into heap, 0: none)
    heap,             \* the CircuitBreaker instances created so far
    ref,              \* per task: the instance it holds (0: none)
    pc,               \* per task: "idle" | "running" (awaiting fn) | "done"
    called,           \* per task: fn of the current execute call was invoked
    fnOutcome,        \* per task: what fn() settled to in the current call
    result,           \* per task: what execute settled to in the current call
    emitted,          \* log events written by the last step
    registered,       \* history, per name (see RegistryHistory)
    audit             \* history, per instance (see Audit*)

\* retryWithBackoff: one call at a time
VARIABLES
    finalConfig,      \* { ...DEFAULT_RETRY_CONFIG, ...config } of the current call
    attempt,          \* the loop counter
    lastError,        \* the local lastError
    retryPc,          \* "idle" | "operation" (awaiting it) | "sleep" | "done"
    retryResult,      \* what the call settled to
    operationCalls,   \* history: the outcomes of the invocations of operation, in order
    sleeps,           \* history: the delays passed to sleep, in order
    randoms           \* history: the values Math.random() returned, in order

\* validateTags and the processors that store its valid half
VARIABLES
    flat_tag_list,    \* what getTaxonomyTags() returns: the taxonomy's flat tag list
    validation,       \* the last validateTags call: its input and the lists it returned
    processing,       \* the record a processor is working on (see NotProcessing)
    stored,           \* the items put into the results table by the last step
    processorLog      \* the warnings a processor logged in the last step

\* routeContent
VARIABLES
    routed,           \* the last call's arguments, and whether there was a call
    decision          \* the RoutingDecision it returned

\* aggregateFrameTags and sampleFrames
VARIABLES
    aggregation,      \* the last aggregateFrameTags call: arguments and result
    sampling          \* the sampleFrames call in progress: arguments, locals, position

\* The taxonomy loader
VARIABLES
    taxonomyFiles,    \* the file system: what is at each of possiblePaths
    cachedTaxonomy,   \* the module's cache: << >> for null, << taxonomy >> when loaded
    taxonomyCall      \* the last call of a loader function and how it ended

\* The logger singleton and an SQS handler invocation
VARIABLES
    loggerContext,    \* Logger.context
    handlerRun,       \* the invocation: which handler, and where it is
    recordPc,         \* per record: "pending" | "processing" | "failing" | "fulfilled" | "rejected"
    recordError,      \* per record: the name of the error its processing failed with
    handlerLog        \* history: the log entries of the invocation, in order

\* retryWithBackoff inside breaker.execute, per task
VARIABLES
    retrying,         \* the task's retry loop: position and attempt number
    invoked           \* history: invocations of the operation since the breaker was
                      \* last CLOSED with failureCount 0, and whether all failed retryably

breakerVars == << now, circuitBreakers, heap, ref, pc, called, fnOutcome, result, emitted,
                  registered, audit >>

retryVars == << finalConfig, attempt, lastError, retryPc, retryResult,
                operationCalls, sleeps, randoms >>

taggingVars == << flat_tag_list, validation, processing, stored, processorLog >>

routingVars == << routed, decision >>

frameVars == << aggregation, sampling >>

taxonomyVars == << taxonomyFiles, cachedTaxonomy, taxonomyCall >>

handlerVars == << loggerContext, handlerRun, recordPc, recordError, handlerLog >>

composedVars == << retrying, invoked >>

vars == << breakerVars, retryVars, taggingVars, routingVars, frameVars, taxonomyVars,
           handlerVars, composedVars >>

NoConfig == [failureThreshold |-> -1, successThreshold |-> -1, timeout |-> -1]

\* History of the registry, per name: the config given by the first call, and
\* whether a later call gave a different one.
NoHistory == [first |-> NoConfig, differed |-> FALSE]

RegistryHistory(h, config) ==
    IF h.first = NoConfig THEN [h EXCEPT !.first = config]
    ELSE IF config # h.first THEN [h EXCEPT !.differed = TRUE] ELSE h

\* History kept beside each instance, independent of its own counters:
\*   run          failures recorded since the instance was last CLOSED with
\*                failureCount 0, when nothing but failures was recorded since
\*                (-1 otherwise)
\*   sinceSuccess failures recorded since the last recorded success or reset
\*   halfOpenOk   successes recorded since the instance last entered HALF_OPEN
\*   interrupted  a success was recorded in CLOSED after at least one failure
\*   cleared      a reset() discarded at least one recorded failure
\* (interrupted and cleared are forgotten when the instance enters HALF_OPEN)
AuditInit ==
    [run |-> 0, sinceSuccess |-> 0, halfOpenOk |-> 0, interrupted |-> FALSE,
     cleared |-> FALSE]

AuditFresh(b, a) ==
    IF b.state.state = "CLOSED" /\ b.state.failureCount = 0
    THEN [a EXCEPT !.run = 0] ELSE a

AuditAdmit(b, a) ==
    IF b.state.state = "OPEN"
    THEN [a EXCEPT !.run = -1, !.halfOpenOk = 0, !.interrupted = FALSE, !.cleared = FALSE]
    ELSE a

AuditSettle(b, b2, o, a) ==
    IF o.kind = "resolved"
    THEN AuditFresh(b2, [a EXCEPT !.run = -1, !.sinceSuccess = 0,
                                   !.halfOpenOk = IF b.state.state = "HALF_OPEN"
                                                  THEN @ + 1 ELSE @,
                                   !.interrupted = @ \/ (b.state.state = "CLOSED"
                                                          /\ a.sinceSuccess > 0)])
    ELSE [a EXCEPT !.run = IF @ >= 0 THEN @ + 1 ELSE @, !.sinceSuccess = @ + 1]

AuditReset(a) ==
    [AuditInit EXCEPT !.cleared = a.sinceSuccess > 0]

\* The state before any call, with the deployed taxonomy's flat tag list.
Start(taxonomyTags) ==
    /\ now = 0
    /\ circuitBreakers = [n \in Names |-> 0]
    /\ heap = << >>
    /\ ref = [c \in Callers |-> 0]
    /\ pc = [c \in Callers |-> "idle"]
    /\ called = [c \in Callers |-> FALSE]
    /\ fnOutcome = [c \in Callers |-> Pending]
    /\ result = [c \in Callers |-> Pending]
    /\ emitted = << >>
    /\ registered = [n \in Names |-> NoHistory]
    /\ audit = << >>
    /\ finalConfig = DEFAULT_RETRY_CONFIG
    /\ attempt = 0
    /\ lastError = Undefined
    /\ retryPc = "idle"
    /\ retryResult = Unsettled
    /\ operationCalls = << >>
    /\ sleeps = << >>
    /\ randoms = << >>
    /\ flat_tag_list = taxonomyTags
    /\ validation = [input |-> << >>, valid |-> << >>, invalid |-> << >>]
    /\ processing = NotProcessing
    /\ stored = << >>
    /\ processorLog = << >>
    /\ routed = [called |-> FALSE, tags |-> << >>, threshold |-> Tenths(0)]
    /\ decision = NoDecision
    /\ aggregation = NotAggregated
    /\ sampling = NotSampling
    /\ taxonomyFiles = [p \in 1..Len(possiblePaths) |-> Missing]
    /\ cachedTaxonomy = << >>
    /\ taxonomyCall = NoTaxonomyCall
    /\ loggerContext = EmptyContext
    /\ handlerRun = NoHandler
    /\ recordPc = [r \in Records |-> "pending"]
    /\ recordError = [r \in Records |-> ""]
    /\ handlerLog = << >>
    /\ retrying = [c \in Callers |-> NotRetrying]
    /\ invoked = [count |-> 0, onlyRetryable |-> TRUE]

Init == Start(<< "sports", "news" >>)

\* ---------------------------------------------------------------- actions

\* Date.now() advances.
Tick ==
    /\ UNCHANGED << retryVars, taggingVars, routingVars, frameVars, taxonomyVars, handlerVars, composedVars >>
    /\ now < MaxTime
    /\ now' = now + 1
    /\ emitted' = << >>
    /\ UNCHANGED << circuitBreakers, heap, ref, pc, called, fnOutcome, result,
                    registered, audit >>

\* A task calls getCircuitBreaker(name, config) and keeps the instance.
GetCircuitBreaker(c, name, config) ==
    /\ UNCHANGED << retryVars, taggingVars, routingVars, frameVars, taxonomyVars, handlerVars, composedVars >>
    /\ pc[c] # "running"
    /\ LET r == getCircuitBreaker(circuitBreakers, heap, name, config, now) IN
       /\ circuitBreakers' = r.reg
       /\ heap' = r.objs
       /\ ref' = [ref EXCEPT ![c] = r.ret]
       /\ emitted' = r.log
       /\ audit' = IF Len(r.objs) > Len(heap) THEN Append(audit, AuditInit) ELSE audit
    /\ registered' = [registered EXCEPT ![name] = RegistryHistory(@, config)]
    /\ pc' = [pc EXCEPT ![c] = "idle"]
    /\ called' = [called EXCEPT ![c] = FALSE]
    /\ fnOutcome' = [fnOutcome EXCEPT ![c] = Pending]
    /\ result' = [result EXCEPT ![c] = Pending]
    /\ UNCHANGED now

\* execute(fn), synchronous prefix: reject while OPEN, else (lazily half-open and)
\* invoke fn.
ExecuteStep(c) ==
    /\ pc[c] # "running"
    /\ ref[c] # 0
    /\ LET b == heap[ref[c]] IN
       IF rejects(b, now)
       THEN /\ result' = [result EXCEPT ![c] = executeRejection(b).outcome]
            /\ emitted' = executeRejection(b).log
            /\ called' = [called EXCEPT ![c] = FALSE]
            /\ pc' = [pc EXCEPT ![c] = "done"]
            /\ UNCHANGED << heap, audit >>
       ELSE /\ heap' = [heap EXCEPT ![ref[c]] = admit(b, now).cb]
            /\ emitted' = admit(b, now).log
            /\ audit' = [audit EXCEPT ![ref[c]] = AuditAdmit(b, @)]
            /\ result' = [result EXCEPT ![c] = Pending]
            /\ called' = [called EXCEPT ![c] = TRUE]
            /\ pc' = [pc EXCEPT ![c] = "running"]
    /\ fnOutcome' = [fnOutcome EXCEPT ![c] = Pending]
    /\ UNCHANGED << now, circuitBreakers, ref, registered >>

\* execute(fn), continuation: fn() settled to o; record it and pass it on.
SettleStep(c, o) ==
    /\ pc[c] = "running"
    /\ LET b == heap[ref[c]] IN
       /\ o.kind = "rejected" => b.state.failureCount < MaxCount
       /\ heap' = [heap EXCEPT ![ref[c]] = settle(b, o, now).cb]
       /\ emitted' = settle(b, o, now).log
       /\ audit' = [audit EXCEPT ![ref[c]] = AuditSettle(b, settle(b, o, now).cb, o, @)]
    /\ fnOutcome' = [fnOutcome EXCEPT ![c] = o]
    /\ result' = [result EXCEPT ![c] = executeResult(o)]
    /\ pc' = [pc EXCEPT ![c] = "done"]
    /\ UNCHANGED << now, circuitBreakers, ref, called, registered >>

\* execute(fn) whose fn is a plain operation: nothing else changes.
Execute(c) ==
    /\ ExecuteStep(c)
    /\ UNCHANGED << retryVars, taggingVars, routingVars, frameVars, taxonomyVars, handlerVars, composedVars >>

Settle(c, o) ==
    /\ SettleStep(c, o)
    /\ UNCHANGED << retryVars, taggingVars, routingVars, frameVars, taxonomyVars, handlerVars, composedVars >>

\* reset() on an instance (tests, manual intervention).
Reset(i) ==
    /\ UNCHANGED << retryVars, taggingVars, routingVars, frameVars, taxonomyVars, handlerVars, composedVars >>
    /\ heap' = [heap EXCEPT ![i] = reset(heap[i], now).cb]
    /\ emitted' = reset(heap[i], now).log
    /\ audit' = [audit EXCEPT ![i] = AuditReset(@)]
    /\ UNCHANGED << now, circuitBreakers, ref, pc, called, fnOutcome, result, registered >>

Next ==
    \/ Tick
    \/ \E c \in Callers, cfg \in ConfigInputs : GetCircuitBreaker(c, "bedrock", cfg)
    \/ \E c \in Callers : Execute(c)
    \/ \E c \in Callers, o \in FnOutcomes : Settle(c, o)
    \/ \E i \in 1..Len(heap) : Reset(i)

Spec == Init /\ [][Next]_vars

\* A process that registers both dependencies while they are down: every wrapped
\* operation fails, and Date.now() does not advance.
ServiceDown == Rejected([name |-> "Error", message |-> "service down", service |-> ""])

NextRegistry ==
    \/ \E c \in Callers, n \in Names, cfg \in ConfigInputs : GetCircuitBreaker(c, n, cfg)
    \/ \E c \in Callers : Execute(c)
    \/ \E c \in Callers : Settle(c, ServiceDown)

SpecRegistry == Init /\ [][NextRegistry]_vars

\* ------------------------------------------------------------ shorthands

Instances == 1..Len(heap)

St(i) == heap[i].state
Cfg(i) == heap[i].config

Opened(name) == LogEvent("error", "Circuit breaker OPENED due to failures", name)
HalfOpened(name) == LogEvent("info", "Circuit breaker transitioning to HALF_OPEN", name)
Recovered(name) == LogEvent("info", "Circuit breaker CLOSED after successful recovery", name)
WasReset(name) == LogEvent("info", "Circuit breaker reset", name)

Emitted(e) == \E k \in 1..Len(emitted) : emitted[k] = e

\* ------------------------------------------------------------------ C1

\* C1: an execute call made while the instance is OPEN and Date.now() is before
\* nextAttempt rejects with a CircuitBreakerError carrying the breaker's name,
\* does not invoke fn, and leaves every instance (state, counters, nextAttempt)
\* as it was.
C1_OpenRejects ==
    [][\A c \in Callers :
         (Execute(c) /\ St(ref[c]).state = "OPEN" /\ now < St(ref[c]).nextAttempt)
         => /\ result'[c] = Rejected(CircuitBreakerError(Cfg(ref[c]).name))
            /\ result'[c].error.service = Cfg(ref[c]).name
            /\ pc'[c] = "done"
            /\ ~called'[c]
            /\ heap' = heap]_vars

\* A task holds the rejection of a call whose fn was not invoked, and the instance
\* is still OPEN before nextAttempt.
C1_Witness ==
    \E c \in Callers :
        /\ pc[c] = "done" /\ ~called[c]
        /\ result[c].error.name = "CircuitBreakerError"
        /\ St(ref[c]).state = "OPEN" /\ now < St(ref[c]).nextAttempt

\* ------------------------------------------------------------------ C2

\* C2: counting from the moment an instance is CLOSED with failureCount 0, after
\* fewer than failureThreshold consecutive failures it is still CLOSED, and after
\* failureThreshold of them it is OPEN.
C2_TripThreshold ==
    \A i \in Instances :
        audit[i].run >= 0 =>
            /\ audit[i].run < Cfg(i).failureThreshold => St(i).state = "CLOSED"
            /\ audit[i].run >= Cfg(i).failureThreshold => St(i).state = "OPEN"

\* An instance with a threshold of at least 2 has just opened on its
\* failureThreshold-th consecutive failure.
C2_Witness ==
    \E i \in Instances :
        /\ Cfg(i).failureThreshold >= 2
        /\ audit[i].run = Cfg(i).failureThreshold
        /\ St(i).state = "OPEN"
        /\ Emitted(Opened(Cfg(i).name))

\* ------------------------------------------------------------------ C3

\* C3: an OPEN instance leaves OPEN only by reset() or by an execute call made at
\* a time not before nextAttempt; that call sets HALF_OPEN with successCount 0
\* and invokes fn.  A step of the clock changes no instance.
C3_LazyHalfOpen ==
    [][/\ Tick => heap' = heap
       /\ \A i \in Instances :
            (St(i).state = "OPEN" /\ heap'[i].state.state # "OPEN")
            => \/ Reset(i)
               \/ \E c \in Callers :
                    /\ Execute(c) /\ ref[c] = i
                    /\ now >= St(i).nextAttempt
                    /\ heap'[i].state.state = "HALF_OPEN"
                    /\ heap'[i].state.successCount = 0
                    /\ called'[c] /\ pc'[c] = "running"]_vars

\* A call made at or after nextAttempt has just moved an instance from OPEN to
\* HALF_OPEN, and its fn is in flight.
C3_Witness ==
    \E c \in Callers :
        /\ pc[c] = "running" /\ called[c]
        /\ St(ref[c]).state = "HALF_OPEN"
        /\ St(ref[c]).successCount = 0
        /\ now >= St(ref[c]).nextAttempt
        /\ emitted = << HalfOpened(Cfg(ref[c]).name) >>

\* ------------------------------------------------------------------ C4

\* C4: a failure recorded while the instance is HALF_OPEN makes it OPEN in that
\* step, whatever failureCount and failureThreshold are, with nextAttempt set to
\* the time of the failure plus timeout.
C4_HalfOpenFailure ==
    [][\A c \in Callers, o \in FnOutcomes :
         (Settle(c, o) /\ o.kind = "rejected" /\ St(ref[c]).state = "HALF_OPEN")
         => /\ heap'[ref[c]].state.state = "OPEN"
            /\ heap'[ref[c]].state.nextAttempt = now + Cfg(ref[c]).timeout]_vars

\* An instance has just been opened although its failureCount is below its
\* failureThreshold: the failure was recorded in HALF_OPEN.
C4_Witness ==
    \E i \in Instances :
        /\ St(i).state = "OPEN"
        /\ St(i).failureCount < Cfg(i).failureThreshold
        /\ St(i).nextAttempt = now + Cfg(i).timeout
        /\ Emitted(Opened(Cfg(i).name))

\* ------------------------------------------------------------------ C5

\* C5: a success recorded in HALF_OPEN closes the instance exactly when the
\* successes recorded since it last entered HALF_OPEN reach successThreshold;
\* with fewer it stays HALF_OPEN; on closing failureCount and successCount are 0.
\* No other outcome of an execute call closes a HALF_OPEN instance (reset() is
\* the manual override).
C5_Recovery ==
    [][/\ \A c \in Callers, o \in FnOutcomes :
            (Settle(c, o) /\ o.kind = "resolved" /\ St(ref[c]).state = "HALF_OPEN")
            => LET i == ref[c] IN
               /\ heap'[i].state.state = "CLOSED"
                    <=> audit'[i].halfOpenOk = Cfg(i).successThreshold
               /\ heap'[i].state.state # "CLOSED"
                    => /\ heap'[i].state.state = "HALF_OPEN"
                       /\ audit'[i].halfOpenOk < Cfg(i).successThreshold
               /\ heap'[i].state.state = "CLOSED"
                    => /\ heap'[i].state.failureCount = 0
                       /\ heap'[i].state.successCount = 0
       /\ \A i \in Instances :
            (St(i).state = "HALF_OPEN" /\ heap'[i].state.state = "CLOSED")
            => \/ Reset(i)
               \/ \E c \in Callers, o \in FnOutcomes :
                    Settle(c, o) /\ o.kind = "resolved" /\ ref[c] = i]_vars

\* An instance that needs at least two successes has just closed on the success
\* that completed them.
C5_Witness ==
    \E i \in Instances :
        /\ Cfg(i).successThreshold >= 2
        /\ St(i).state = "CLOSED"
        /\ audit[i].halfOpenOk = Cfg(i).successThreshold
        /\ Emitted(Recovered(Cfg(i).name))

\* ------------------------------------------------------------------ C6

\* C6: when fn settles, execute settles the same way in the same step: it
\* resolves with fn's value or rejects with fn's error itself, and the instance
\* already shows the update for that outcome (failureCount 0 after a success,
\* one more after a failure).
C6_PassThrough ==
    [][\A c \in Callers, o \in FnOutcomes :
         Settle(c, o)
         => /\ pc'[c] = "done"
            /\ fnOutcome'[c] = o
            /\ result'[c].kind = o.kind
            /\ result'[c].value = o.value
            /\ result'[c].error = o.error
            /\ o.kind = "resolved" => heap'[ref[c]].state.failureCount = 0
            /\ o.kind = "rejected"
                 => heap'[ref[c]].state.failureCount = St(ref[c]).failureCount + 1]_vars

\* A task observes the error its own fn raised, and the failure is on the counter.
C6_Witness ==
    \E c \in Callers :
        /\ pc[c] = "done" /\ called[c]
        /\ fnOutcome[c].kind = "rejected"
        /\ result[c] = fnOutcome[c]
        /\ result[c].error \in OpErrors
        /\ St(ref[c]).failureCount >= 1

\* ------------------------------------------------------------------ C7

\* C7: a failure recorded while the instance is already OPEN (its call was
\* admitted before the opening) does not trip it again: nextAttempt stays and no
\* second opening is reported.
C7_TripOnce ==
    [][\A c \in Callers, o \in FnOutcomes :
         (Settle(c, o) /\ o.kind = "rejected" /\ St(ref[c]).state = "OPEN")
         => /\ heap'[ref[c]].state.nextAttempt = St(ref[c]).nextAttempt
            /\ \A k \in 1..Len(emitted') : emitted'[k] # Opened(Cfg(ref[c]).name)]_vars

\* ------------------------------------------------------------------ C8

\* C8: a success recorded in CLOSED leaves the instance CLOSED with failureCount
\* 0, and a CLOSED instance opens only when at least failureThreshold failures
\* were recorded since the last success.
C8_ConsecutiveOnly ==
    [][/\ \A c \in Callers, o \in FnOutcomes :
            (Settle(c, o) /\ o.kind = "resolved" /\ St(ref[c]).state = "CLOSED")
            => /\ heap'[ref[c]].state.failureCount = 0
               /\ heap'[ref[c]].state.state = "CLOSED"
       /\ \A i \in Instances :
            (St(i).state = "CLOSED" /\ heap'[i].state.state = "OPEN")
            => audit'[i].sinceSuccess >= Cfg(i).failureThreshold]_vars

\* A run of failures was interrupted by a success, and the instance has just
\* opened on the failureThreshold-th failure after that success.
C8_Witness ==
    \E i \in Instances :
        /\ audit[i].interrupted
        /\ St(i).state = "OPEN"
        /\ audit[i].sinceSuccess = Cfg(i).failureThreshold
        /\ St(i).failureCount = Cfg(i).failureThreshold
        /\ Emitted(Opened(Cfg(i).name))

\* ------------------------------------------------------------------ C9

\* Each name has at most one instance; the registered instance has the config
\* the constructor makes of the first call's config; every instance a task holds
\* is the one registered under its name.
RegistryOk ==
    /\ \A n \in Names : Cardinality({i \in Instances : Cfg(i).name = n}) <= 1
    /\ \A n \in Names :
         registered[n].first # NoConfig
         => /\ circuitBreakers[n] \in Instances
            /\ Cfg(circuitBreakers[n]) = CircuitBreakerConfig(n, registered[n].first)
    /\ \A c \in Callers : ref[c] # 0 => circuitBreakers[Cfg(ref[c]).name] = ref[c]

\* C9: every getCircuitBreaker(name, config) returns the one instance registered
\* under name; a call for a registered name changes neither the registry nor any
\* instance (its config is ignored), also while execute calls are in flight.
C9_Registry ==
    [][/\ \A c \in Callers, n \in Names, cfg \in ConfigInputs :
            GetCircuitBreaker(c, n, cfg)
            => /\ ref'[c] = circuitBreakers'[n]
               /\ heap'[ref'[c]].config.name = n
               /\ circuitBreakers[n] # 0
                    => heap' = heap /\ circuitBreakers' = circuitBreakers
       /\ RegistryOk']_vars

\* Both names are registered; two tasks hold the same instance, which a later
\* call asked for with another config, which has a failure recorded, and on
\* which a call is in flight.
C9_Witness ==
    /\ \A n \in Names : circuitBreakers[n] # 0
    /\ \E c1, c2 \in Callers :
         /\ c1 # c2
         /\ ref[c1] # 0 /\ ref[c1] = ref[c2]
         /\ registered[Cfg(ref[c1]).name].differed
         /\ St(ref[c1]).failureCount >= 1
         /\ pc[c1] = "running"

\* ------------------------------------------------------------------ C10

\* C10: reset() leaves the instance CLOSED with failureCount 0 and successCount 0
\* whatever its state was; an execute call on a CLOSED instance invokes fn; and
\* after a reset that discarded failures the instance opens only when
\* failureThreshold failures were recorded since.
C10_Reset ==
    [][/\ \A i \in Instances :
            Reset(i) => /\ heap'[i].state.state = "CLOSED"
                        /\ heap'[i].state.failureCount = 0
                        /\ heap'[i].state.successCount = 0
       /\ \A c \in Callers :
            (Execute(c) /\ St(ref[c]).state = "CLOSED")
            => called'[c] /\ pc'[c] = "running" /\ heap' = heap
       /\ \A i \in Instances :
            (audit[i].cleared /\ St(i).state = "CLOSED" /\ heap'[i].state.state = "OPEN")
            => audit'[i].sinceSuccess >= Cfg(i).failureThreshold]_vars

\* After a reset that discarded at least one failure, failureThreshold - 1 more
\* failures were recorded and the instance is still CLOSED.
C10_Witness ==
    \E i \in Instances :
        /\ audit[i].cleared
        /\ Cfg(i).failureThreshold >= 2
        /\ St(i).state = "CLOSED"
        /\ St(i).failureCount = Cfg(i).failureThreshold - 1
        /\ audit[i].sinceSuccess = St(i).failureCount

\* ================================================================ Part 2
\* The retry engine.

\* retryWithBackoff(operation, config): merge the config and enter the loop; the
\* first iteration invokes operation. With maxAttempts below 1 the loop body never
\* runs and the function throws its unassigned lastError.
RetryWithBackoff(config) ==
    /\ retryPc \in {"idle", "done"}
    /\ finalConfig' = mergeConfig(config)
    /\ attempt' = 1
    /\ lastError' = Undefined
    /\ operationCalls' = << >>
    /\ sleeps' = << >>
    /\ randoms' = << >>
    /\ IF 1 <= mergeConfig(config).maxAttempts
       THEN /\ retryPc' = "operation"
            /\ retryResult' = Unsettled
       ELSE /\ retryPc' = "done"
            /\ retryResult' = retryRejection(Undefined)
    /\ UNCHANGED << breakerVars, taggingVars, routingVars, frameVars, taxonomyVars, handlerVars, composedVars >>

\* The awaited operation() settles to o.
\* Success: return it. Failure: throw it when it is not retryable or attempts
\* are used up; otherwise compute the delay (Math.random() = k / RandomSteps) and
\* sleep.
OperationSettles(o, k) ==
    /\ retryPc = "operation"
    /\ operationCalls' = Append(operationCalls, o)
    /\ IF o.kind = "resolved"
       THEN /\ retryResult' = retryResolution(o)
            /\ retryPc' = "done"
            /\ UNCHANGED << lastError, sleeps, randoms >>
       ELSE /\ lastError' = o.error
            /\ IF giveUp(finalConfig, attempt, o.error)
               THEN /\ retryResult' = retryRejection(o.error)
                    /\ retryPc' = "done"
                    /\ UNCHANGED << sleeps, randoms >>
               ELSE /\ sleeps' = Append(sleeps, delay(finalConfig, attempt, k))
                    /\ randoms' = Append(randoms, k)
                    /\ retryPc' = "sleep"
                    /\ UNCHANGED retryResult
    /\ UNCHANGED << finalConfig, attempt >>
    /\ UNCHANGED << breakerVars, taggingVars, routingVars, frameVars, taxonomyVars, handlerVars, composedVars >>

\* The sleep timer fires: attempt++, the loop test, and the next invocation of
\* operation (or fall out of the loop and throw lastError).
Wake ==
    /\ retryPc = "sleep"
    /\ attempt' = attempt + 1
    /\ IF attempt + 1 <= finalConfig.maxAttempts
       THEN /\ retryPc' = "operation"
            /\ UNCHANGED retryResult
       ELSE /\ retryPc' = "done"
            /\ retryResult' = retryRejection(lastError)
    /\ UNCHANGED << finalConfig, lastError, operationCalls, sleeps, randoms >>
    /\ UNCHANGED << breakerVars, taggingVars, routingVars, frameVars, taxonomyVars, handlerVars, composedVars >>

NextRetry ==
    \/ \E config \in RetryConfigInputs : RetryWithBackoff(config)
    \/ \E o \in OperationOutcomes(Len(operationCalls) + 1), k \in 0..(RandomSteps - 1) :
          OperationSettles(o, k)
    \/ Wake

SpecRetry == Init /\ [][NextRetry]_vars

\* ================================================================ Part 3
\* Taxonomy validation and the two SQS processors.

\* A direct call of validateTags(tags).
ValidateTags(tags) ==
    /\ LET v == validateTags(tags, flat_tag_list) IN
       validation' = [input |-> tags, valid |-> v.valid, invalid |-> v.invalid]
    /\ stored' = << >>
    /\ processorLog' = << >>
    /\ UNCHANGED << flat_tag_list, processing >>
    /\ UNCHANGED << breakerVars, retryVars, routingVars, frameVars, taxonomyVars, handlerVars, composedVars >>

\* Text processor, processRecord up to the await of storeResults: Claude answered
\* with rawTags; tagContentWithClaude validates, warns and filters.
TagContentWithClaude(content_id, rawTags) ==
    /\ processing.pc # "tagged"
    /\ LET r == taggedFrom(rawTags, flat_tag_list, content_id, BedrockModelId) IN
       /\ validation' = r.validation
       /\ processorLog' = r.log
       /\ processing' = [ processor |-> "text", pc |-> "tagged", content_id |-> content_id,
                          rawTags |-> rawTags, tags |-> r.tags, routing |-> NoDecision ]
    /\ stored' = << >>
    /\ UNCHANGED flat_tag_list
    /\ UNCHANGED << breakerVars, retryVars, routingVars, frameVars, taxonomyVars, handlerVars, composedVars >>

\* Video processor, processRecord up to the await of storeResults: Gemini answered
\* with frameTags; tagVideoWithGemini aggregates, validates, warns and filters, and
\* processRecord routes the tags that are left.
TagVideoWithGemini(content_id, frameTags) ==
    /\ processing.pc # "tagged"
    /\ LET rawTags == aggregateFrameTags(frameTags, DefaultMinFrameFraction)
           r == taggedFrom(rawTags, flat_tag_list, content_id, NoModel)
       IN  /\ validation' = r.validation
           /\ processorLog' = r.log
           /\ processing' = [ processor |-> "video", pc |-> "tagged", content_id |-> content_id,
                              rawTags |-> rawTags, tags |-> r.tags,
                              routing |-> routeContent(r.tags, ConfidenceThreshold) ]
    /\ stored' = << >>
    /\ UNCHANGED flat_tag_list
    /\ UNCHANGED << breakerVars, retryVars, routingVars, frameVars, taxonomyVars, handlerVars, composedVars >>

\* storeResults: the PutCommand of the record being processed.
StoreResults ==
    /\ processing.pc = "tagged"
    /\ stored' = << [ content_id |-> processing.content_id,
                      status     |-> "COMPLETED",
                      tags       |-> processing.tags,
                      routing    |-> processing.routing ] >>
    /\ processing' = [processing EXCEPT !.pc = "stored"]
    /\ processorLog' = << >>
    /\ UNCHANGED << flat_tag_list, validation >>
    /\ UNCHANGED << breakerVars, retryVars, routingVars, frameVars, taxonomyVars, handlerVars, composedVars >>

NextTagging ==
    \/ \E c \in ContentIds, rawTags \in SeqsUpTo(ModelTagResults, MaxTags) : TagContentWithClaude(c, rawTags)
    \/ \E c \in ContentIds, frameTags \in SeqsUpTo(FrameInputs, MaxFrames) : TagVideoWithGemini(c, frameTags)
    \/ StoreResults

InitTagging == \E taxonomyTags \in Taxonomies : Start(taxonomyTags)

SpecTagging == InitTagging /\ [][NextTagging]_vars

NextValidate ==
    \E tags \in SeqsUpTo(TagNames, MaxCandidates) : ValidateTags(tags)

SpecValidate == InitTagging /\ [][NextValidate]_vars

\* ================================================================ Part 4
\* Confidence routing.

\* A call of routeContent(tags, threshold).
RouteContent(tags, threshold) ==
    /\ routed' = [called |-> TRUE, tags |-> tags, threshold |-> threshold]
    /\ decision' = routeContent(tags, threshold)
    /\ UNCHANGED << breakerVars, retryVars, taggingVars, frameVars, taxonomyVars, handlerVars, composedVars >>

NextRouting ==
    \E tags \in SeqsUpTo(TagResults, MaxTags), threshold \in Thresholds : RouteContent(tags, threshold)

SpecRouting == Init /\ [][NextRouting]_vars

\* ---------------------------------------------------- claims: retry engine

\* The outcomes of the invocations so far; the n-th invocation's error, if any.
Invocations == Len(operationCalls)
Failed(i) == operationCalls[i].kind = "rejected"
RaisedBy(i) == operationCalls[i].error

\* The error's name is one of the configured names.
NameInSet(e) ==
    \E i \in 1..Len(finalConfig.retryableErrors) : finalConfig.retryableErrors[i] = e.name

\* The error's name has one of the configured names inside it.
NameHoldsOne(e) ==
    \E i \in 1..Len(finalConfig.retryableErrors) :
        LET member == finalConfig.retryableErrors[i] IN
        \E from \in 1..(Len(e.name) + 1) :
            /\ from + Len(member) - 1 <= Len(e.name)
            /\ \A j \in 1..Len(member) : e.name[from + j - 1] = member[j]

\* min(initialDelay * backoffMultiplier^(a-1), maxDelay), as a quotient
Backoff(a) ==
    LET m == finalConfig.backoffMultiplier
        grown == [num |-> finalConfig.initialDelayMs * pow(m.num, a - 1), den |-> pow(m.den, a - 1)]
        cap == [num |-> finalConfig.maxDelayMs, den |-> 1]
    IN  IF QLess(cap, grown) THEN cap ELSE grown

\* C11: when every attempt failed with an error whose name is in the retryable
\* set and maxAttempts = N >= 1, a finished call has invoked the operation exactly
\* N times and is rejected with the very error the N-th invocation raised; the
\* operation is never invoked more than N times.
C11_Exhaustion ==
    (/\ finalConfig.maxAttempts >= 1
     /\ \A i \in 1..Invocations : Failed(i) /\ NameInSet(RaisedBy(i)))
    => /\ Invocations <= finalConfig.maxAttempts
       /\ retryPc = "done" =>
            /\ Invocations = finalConfig.maxAttempts
            /\ retryResult.kind = "rejected"
            /\ retryResult.error = RaisedBy(finalConfig.maxAttempts)

C11_Witness ==
    /\ retryPc = "done"
    /\ finalConfig.maxAttempts = 3
    /\ Invocations = 3
    /\ \A i \in 1..3 : Failed(i) /\ NameInSet(RaisedBy(i))
    /\ retryResult.kind = "rejected"
    /\ retryResult.error.id = 3

\* C12 as stated: an attempt that fails with an error whose name is not a member
\* of the retryable set is the last invocation, no sleep follows it, and the call
\* is rejected with that error.
C12_FatalByMembership ==
    \A i \in 1..Invocations :
        (Failed(i) /\ ~NameInSet(RaisedBy(i)))
        => /\ i = Invocations
           /\ retryPc = "done"
           /\ Len(sleeps) = i - 1
           /\ retryResult.kind = "rejected"
           /\ retryResult.error = RaisedBy(i)

\* C12, amended: an attempt that fails with an error whose name has none of the
\* retryable names inside it (as a substring) is the last invocation: the
\* invocations before it all failed and were each followed by one sleep, no sleep
\* follows it, and the call is rejected with that same error.
C12_Fatal ==
    \A i \in 1..Invocations :
        (Failed(i) /\ ~NameHoldsOne(RaisedBy(i)))
        => /\ i = Invocations
           /\ retryPc = "done"
           /\ \A j \in 1..(i - 1) : Failed(j)
           /\ Len(sleeps) = i - 1
           /\ retryResult.kind = "rejected"
           /\ retryResult.error = RaisedBy(i)

C12_Witness ==
    /\ retryPc = "done"
    /\ finalConfig.maxAttempts = 3
    /\ Invocations = 2
    /\ Failed(1) /\ NameHoldsOne(RaisedBy(1))
    /\ Failed(2) /\ ~NameHoldsOne(RaisedBy(2))
    /\ Len(sleeps) = 1
    /\ retryResult.error = RaisedBy(2)

\* C13: an invocation that succeeds is the last one: the call is resolved with
\* that invocation's result, the invocations before it all failed, the operation
\* was invoked exactly k <= maxAttempts times and is not invoked again.
C13_SuccessStops ==
    \A k \in 1..Invocations :
        ~Failed(k)
        => /\ k = Invocations
           /\ k <= finalConfig.maxAttempts
           /\ \A j \in 1..(k - 1) : Failed(j)
           /\ retryPc = "done"
           /\ retryResult.kind = "resolved"
           /\ retryResult.value = operationCalls[k].value

C13_Witness ==
    /\ Invocations = 3
    /\ Failed(1) /\ Failed(2) /\ ~Failed(3)
    /\ retryPc = "done"
    /\ retryResult.kind = "resolved"
    /\ retryResult.value = operationCalls[3].value

C15_JitterAboveBase ==
    \A a \in 1..Len(sleeps) :
        /\ sleeps[a] * Backoff(a).den >= Backoff(a).num
        /\ 10 * sleeps[a] * Backoff(a).den <= 11 * Backoff(a).num

\* C15, amended: every delay slept is at least base rounded down to whole
\* milliseconds and at most base plus 10% of base; jitter is never negative, the
\* delay falls below base only by the rounding (by less than 1 ms).
C15_Jitter ==
    \A a \in 1..Len(sleeps) :
        /\ (sleeps[a] + 1) * Backoff(a).den > Backoff(a).num
        /\ 10 * sleeps[a] * Backoff(a).den <= 11 * Backoff(a).num

C15_Witness ==
    /\ Len(sleeps) = 1
    /\ randoms[1] > 0
    /\ finalConfig.initialDelayMs = 1000
    /\ sleeps[1] > 1000
    /\ sleeps[1] <= 1100

\* ------------------------------------- claims: validation and processors

\* The taxonomy's flat tag set.
FlatTagSet == {flat_tag_list[i] : i \in 1..Len(flat_tag_list)}

\* C16: validateTags returns valid = the input's elements that are exact
\* (case-sensitive) members of the flat tag list and invalid = its other elements,
\* both in input order and with duplicates kept, so |valid| + |invalid| = |input|.
C16_StablePartition ==
    /\ validation.valid = SelectSeq(validation.input, LAMBDA t : t \in FlatTagSet)
    /\ validation.invalid = SelectSeq(validation.input, LAMBDA t : t \notin FlatTagSet)
    /\ Len(validation.valid) + Len(validation.invalid) = Len(validation.input)

C16_Witness ==
    /\ flat_tag_list = << "sports", "news" >>
    /\ validation.input = << "sports", "Sports", "sports" >>
    /\ validation.valid = << "sports", "sports" >>
    /\ validation.invalid = << "Sports" >>

\* C17: every tag of every item a processor puts into the results table is a
\* member of the taxonomy's flat tag set, whatever the model returned; so is every
\* tag tagContentWithClaude / tagVideoWithGemini hands on.
C17_Firewall ==
    /\ \A i \in 1..Len(stored) : \A j \in 1..Len(stored[i].tags) :
          stored[i].tags[j].tag \in FlatTagSet
    /\ \A j \in 1..Len(processing.tags) : processing.tags[j].tag \in FlatTagSet

C17_Witness ==
    /\ processing.processor = "video"
    /\ processing.pc = "stored"
    /\ \E j \in 1..Len(processing.rawTags) : processing.rawTags[j].tag \notin FlatTagSet
    /\ Len(stored) = 1
    /\ Len(stored[1].tags) > 0
    /\ Len(stored[1].tags) < Len(processing.rawTags)

\* ------------------------------------------------------- claims: routing

\* The positions of the tags whose confidence is strictly below the threshold.
Below == {i \in 1..Len(routed.tags) : QLess(routed.tags[i].confidence, routed.threshold)}

\* C18: routeContent returns needs_review = 'true' exactly when the list is empty
\* or some tag's confidence is strictly below the threshold, and 'false'
\* otherwise (a confidence equal to the threshold is not below it).
C18_NeedsReview ==
    routed.called =>
        /\ decision.needs_review \in {"true", "false"}
        /\ decision.needs_review = "true" <=> (Len(routed.tags) = 0 \/ Below # {})

C18_Witness ==
    /\ routed.called
    /\ Len(routed.tags) = 2
    /\ \E i \in 1..2 : QEqual(routed.tags[i].confidence, routed.threshold)
    /\ decision.needs_review = "false"

\* C19: when a non-empty list is flagged for review, the routing_reason lists
\* exactly the below-threshold tags, each with its confidence, in input order, and
\* states k of n: k the number of below-threshold tags, n the number of tags.
C19_Reason ==
    (routed.called /\ Len(routed.tags) > 0 /\ decision.needs_review = "true")
    => LET reason == decision.routing_reason IN
       /\ reason.text = "below confidence threshold"
       /\ reason.k = Cardinality(Below)
       /\ reason.n = Len(routed.tags)
       /\ reason.threshold = routed.threshold
       /\ reason.listed =
            SelectSeq(routed.tags, LAMBDA t : QLess(t.confidence, routed.threshold))

C19_Witness ==
    /\ routed.called
    /\ Len(routed.tags) = 2
    /\ Cardinality(Below) = 2
    /\ routed.tags[1] # routed.tags[2]
    /\ decision.needs_review = "true"
    /\ Len(decision.routing_reason.listed) = 2

\* C20: the decision's min_confidence is the least confidence among the tags (0
\* for the empty list), its confidence_threshold is the threshold passed in, its
\* source is 'ai' and reviewed is false.
C20_DecisionRecord ==
    routed.called =>
        /\ IF Len(routed.tags) = 0
           THEN decision.min_confidence.num = 0
           ELSE /\ \E i \in 1..Len(routed.tags) :
                      decision.min_confidence = routed.tags[i].confidence
                /\ \A i \in 1..Len(routed.tags) :
                      ~QLess(routed.tags[i].confidence, decision.min_confidence)
        /\ decision.confidence_threshold = routed.threshold
        /\ decision.source = "ai"
        /\ decision.reviewed = FALSE

C20_Witness ==
    /\ routed.called
    /\ Len(routed.tags) = 2
    /\ QLess(routed.tags[2].confidence, routed.tags[1].confidence)
    /\ decision.min_confidence = routed.tags[2].confidence
    /\ decision.confidence_threshold = routed.threshold

\* ================================================================ Part 5
\* Frame sampling and frame aggregation.

\* A call of aggregateFrameTags(frameResults, minFrameFraction).
AggregateFrameTags(frameResults, minFrameFraction) ==
    /\ aggregation' = [ called |-> TRUE, frameResults |-> frameResults,
                        minFrameFraction |-> minFrameFraction,
                        result |-> aggregateFrameTags(frameResults, minFrameFraction) ]
    /\ UNCHANGED sampling
    /\ UNCHANGED << breakerVars, retryVars, taggingVars, routingVars, taxonomyVars, handlerVars, composedVars >>

NextAggregate ==
    \E frameResults \in SeqsUpTo(FrameInputs, MaxFrames), minFrameFraction \in MinFrameFractions :
        AggregateFrameTags(frameResults, minFrameFraction)

SpecAggregate == Init /\ [][NextAggregate]_vars

\* A call of sampleFrames(durationSeconds, intervalSeconds), up to its loop.
SampleFrames(durationSeconds, intervalSeconds) ==
    /\ sampling.pc # "loop"
    /\ sampling' = sampleFramesEnter(durationSeconds, intervalSeconds)
    /\ UNCHANGED aggregation
    /\ UNCHANGED << breakerVars, retryVars, taggingVars, routingVars, taxonomyVars, handlerVars, composedVars >>

\* One turn of its while loop, followed up to MaxSamples samples. With an
\* interval of 0 or below the timestamp does not grow, so a loop that has made
\* MaxSamples samples goes on until the array has used the memory (or the time)
\* of the process and the runtime ends it: "aborted", neither a return nor a throw.
SampleLoop ==
    /\ sampling.pc = "loop"
    /\ Len(sampling.frames) < MaxSamples \/ sampling.intervalSeconds <= 0
    /\ sampling' = IF Len(sampling.frames) < MaxSamples
                   THEN sampleFramesLoop(sampling)
                   ELSE [sampling EXCEPT !.pc = "aborted"]
    /\ UNCHANGED aggregation
    /\ UNCHANGED << breakerVars, retryVars, taggingVars, routingVars, taxonomyVars, handlerVars, composedVars >>

NextSampling ==
    \/ \E input \in SampleInputs : SampleFrames(input[1], input[2])
    \/ SampleLoop

SpecSampling == Init /\ [][NextSampling]_vars

\* ----------------------------------------------------------- claims: frames

\* In how many of the frames given tag t occurs.
FramesWith(t) ==
    Cardinality({ i \in 1..Len(aggregation.frameResults) :
                    \E j \in 1..Len(aggregation.frameResults[i]) :
                        aggregation.frameResults[i][j].tag = t })

InResult(t) == \E r \in 1..Len(aggregation.result) : aggregation.result[r].tag = t

\* C21 as stated: for a non-empty list of frames, a tag is in the result exactly
\* when (frames in which it appears) / (frames) >= minFrameFraction, also when
\* a frame lists the tag more than once.
C21_InclusionByFrames ==
    (aggregation.called /\ Len(aggregation.frameResults) > 0)
    => \A t \in TagNames :
          InResult(t) <=>
             /\ FramesWith(t) > 0
             /\ FramesWith(t) * aggregation.minFrameFraction.den
                  >= aggregation.minFrameFraction.num * Len(aggregation.frameResults)

\* All occurrences of tag t in the frames given: (frame, position) pairs.
Occurrences(t) ==
    UNION { { << i, j >> : j \in { n \in 1..Len(aggregation.frameResults[i]) :
                                      aggregation.frameResults[i][n].tag = t } } :
            i \in 1..Len(aggregation.frameResults) }

RECURSIVE SumOver(_)
SumOver(occ) ==
    IF occ = {} THEN [num |-> 0, den |-> 1]
    ELSE LET o == CHOOSE x \in occ : TRUE IN
         QAdd(aggregation.frameResults[o[1]][o[2]].confidence, SumOver(occ \ {o}))

\* C22: every tag of the result is there once, its confidence is the sum of its
\* per-occurrence confidences divided by the number of its occurrences, the
\* result is in non-increasing order of confidence, and zero frames give the
\* empty result.
C22_MeanAndOrder ==
    aggregation.called =>
        LET res == aggregation.result IN
        /\ \A r, q \in 1..Len(res) : res[r].tag = res[q].tag => r = q
        /\ \A r \in 1..Len(res) :
              LET occ == Occurrences(res[r].tag)
                  sum == SumOver(occ)
              IN  /\ occ # {}
                  /\ QEqual(res[r].confidence, [num |-> sum.num, den |-> sum.den * Cardinality(occ)])
        /\ \A r \in 1..(Len(res) - 1) : ~QLess(res[r].confidence, res[r + 1].confidence)
        /\ Len(aggregation.frameResults) = 0 => res = << >>

C22_Witness ==
    /\ aggregation.called
    /\ Len(aggregation.frameResults) = 2
    /\ Len(aggregation.result) = 2
    /\ \E t \in TagNames : Cardinality(Occurrences(t)) = 2 /\ FramesWith(t) = 2 /\ InResult(t)
    /\ QLess(aggregation.result[2].confidence, aggregation.result[1].confidence)
    /\ aggregation.frameResults[1][1].tag = aggregation.result[2].tag

\* C23: for intervalSeconds > 0 and 0 <= durationSeconds <= 3600, sampleFrames
\* returns the samples (frameIndex k, timestampSeconds k * intervalSeconds) for
\* k = 0 .. floor(durationSeconds / intervalSeconds), in that order: no timestamp
\* exceeds durationSeconds, and duration 0 gives the one sample at 0.
C23_Samples ==
    (/\ sampling.pc # "idle"
     /\ sampling.intervalSeconds > 0
     /\ sampling.durationSeconds >= 0
     /\ sampling.durationSeconds <= 3600)
    => /\ sampling.pc \in {"loop", "returned"}
       /\ \A k \in 1..Len(sampling.frames) :
             /\ sampling.frames[k].frameIndex = k - 1
             /\ sampling.frames[k].timestampSeconds = (k - 1) * sampling.intervalSeconds
             /\ sampling.frames[k].timestampSeconds <= sampling.durationSeconds
       /\ sampling.pc = "returned" =>
             /\ Len(sampling.frames) = (sampling.durationSeconds \div sampling.intervalSeconds) + 1
             /\ sampling.durationSeconds = 0 => Len(sampling.frames) = 1

C23_Witness ==
    /\ sampling.pc = "returned"
    /\ sampling.durationSeconds = 4
    /\ sampling.intervalSeconds = 2
    /\ Len(sampling.frames) = 3
    /\ sampling.frames[3].timestampSeconds = 4

\* ================================================================ Part 6
\* The taxonomy loader and its cache.

\* The file system changes: a taxonomy file is deployed, replaced, broken or removed.
WriteFile(p, f) ==
    /\ taxonomyFiles[p] # f
    /\ taxonomyFiles' = [taxonomyFiles EXCEPT ![p] = f]
    /\ UNCHANGED << cachedTaxonomy, taxonomyCall >>
    /\ UNCHANGED << breakerVars, retryVars, taggingVars, routingVars, frameVars, handlerVars, composedVars >>

\* A call of getTaxonomy().
GetTaxonomy ==
    /\ LET r == getTaxonomy(cachedTaxonomy, taxonomyFiles) IN
       /\ cachedTaxonomy' = r.cache
       /\ taxonomyCall' =
            TaxonomyCall("getTaxonomy", "", << >>, IF r.ok THEN "returned" ELSE "threw",
                         IF r.ok THEN << r.taxonomy >> ELSE << >>, "", << >>, << >>,
                         r.error, r.loaded)
    /\ UNCHANGED taxonomyFiles
    /\ UNCHANGED << breakerVars, retryVars, taggingVars, routingVars, frameVars, handlerVars, composedVars >>

\* A call of validateTags(tags): getTaxonomyTags(), then the loop.
LoaderValidateTags(tags) ==
    /\ LET r == getTaxonomy(cachedTaxonomy, taxonomyFiles)
           v == validateTags(tags, r.taxonomy.flat_tag_list)
       IN  /\ cachedTaxonomy' = r.cache
           /\ taxonomyCall' =
                IF r.ok
                THEN TaxonomyCall("validateTags", "", tags, "returned", << >>, "",
                                  v.valid, v.invalid, "", r.loaded)
                ELSE TaxonomyCall("validateTags", "", tags, "threw", << >>, "",
                                  << >>, << >>, r.error, r.loaded)
    /\ UNCHANGED taxonomyFiles
    /\ UNCHANGED << breakerVars, retryVars, taggingVars, routingVars, frameVars, handlerVars, composedVars >>

\* A call of getCanonicalTag(tagOrSynonym): getTaxonomy(), then the two lookups.
GetCanonicalTag(tagOrSynonym) ==
    /\ LET r == getTaxonomy(cachedTaxonomy, taxonomyFiles)
           c == getCanonicalTag(r.taxonomy, tagOrSynonym)
       IN  /\ cachedTaxonomy' = r.cache
           /\ taxonomyCall' =
                IF r.ok
                THEN TaxonomyCall("getCanonicalTag", tagOrSynonym, << >>, c.outcome, << >>,
                                  c.text, << >>, << >>, c.error, r.loaded)
                ELSE TaxonomyCall("getCanonicalTag", tagOrSynonym, << >>, "threw", << >>,
                                  "", << >>, << >>, r.error, r.loaded)
    /\ UNCHANGED taxonomyFiles
    /\ UNCHANGED << breakerVars, retryVars, taggingVars, routingVars, frameVars, handlerVars, composedVars >>

\* A call of clearCache().
ClearCache ==
    /\ cachedTaxonomy' = << >>
    /\ taxonomyCall' = TaxonomyCall("clearCache", "", << >>, "returned", << >>, "",
                                    << >>, << >>, "", FALSE)
    /\ UNCHANGED taxonomyFiles
    /\ UNCHANGED << breakerVars, retryVars, taggingVars, routingVars, frameVars, handlerVars, composedVars >>

NextTaxonomy ==
    \/ \E p \in ProvidedPaths, f \in FileStates : WriteFile(p, f)
    \/ GetTaxonomy
    \/ \E tags \in SeqsUpTo(TagNames, 1) : LoaderValidateTags(tags)
    \/ \E tagOrSynonym \in TagOrSynonymInputs : GetCanonicalTag(tagOrSynonym)
    \/ ClearCache

SpecTaxonomy == Init /\ [][NextTaxonomy]_vars

\* ------------------------------------------------- claims: taxonomy loader

\* A step that reads the taxonomy.
ReadsTaxonomy ==
    \/ GetTaxonomy
    \/ \E tags \in SeqsUpTo(TagNames, 1) : LoaderValidateTags(tags)
    \/ \E tagOrSynonym \in TagOrSynonymInputs : GetCanonicalTag(tagOrSynonym)

\* The source as the loader finds it: the first of possiblePaths that exists.
FirstPresent ==
    LET present == { p \in 1..Len(possiblePaths) : taxonomyFiles[p].kind # "missing" } IN
    IF present = {} THEN 0 ELSE CHOOSE p \in present : \A q \in present : p <= q

SourceUnusable == FirstPresent = 0 \/ taxonomyFiles[FirstPresent].kind = "invalid"

\* C24: a read with an empty cache loads; after a successful load every read
\* leaves the cache as it is and loads nothing, and getTaxonomy returns the cached
\* taxonomy, whatever has happened to the files since; only clearCache empties
\* the cache, and the next read after it loads again.
C24_CacheLifecycle ==
    [][ /\ (ReadsTaxonomy /\ cachedTaxonomy = << >>) => taxonomyCall'.loaded
        /\ (ReadsTaxonomy /\ cachedTaxonomy # << >>) =>
              /\ ~taxonomyCall'.loaded
              /\ cachedTaxonomy' = cachedTaxonomy
        /\ (GetTaxonomy /\ cachedTaxonomy # << >>) => taxonomyCall'.taxonomy = cachedTaxonomy
        /\ (cachedTaxonomy # << >> /\ cachedTaxonomy' # cachedTaxonomy) =>
              (ClearCache /\ cachedTaxonomy' = << >>)
        /\ (GetTaxonomy /\ cachedTaxonomy = << >> /\ taxonomyCall'.outcome = "returned") =>
              (cachedTaxonomy' = taxonomyCall'.taxonomy /\ cachedTaxonomy' # << >>)
      ]_vars

\* A read served from the cache although the file it was loaded from is gone.
C24_Witness ==
    /\ taxonomyCall.op = "getTaxonomy"
    /\ taxonomyCall.outcome = "returned"
    /\ ~taxonomyCall.loaded
    /\ cachedTaxonomy = << TaxonomyA >>
    /\ taxonomyCall.taxonomy = << TaxonomyA >>
    /\ taxonomyFiles[1] = Valid(TaxonomyB)

\* C25: a read that has to load (empty cache) while the source is missing or
\* invalid throws: it returns no taxonomy and no result computed from one, and it
\* leaves the cache empty, so the next read loads again.
C25_LoadFailure ==
    [][ (ReadsTaxonomy /\ cachedTaxonomy = << >> /\ SourceUnusable) =>
            /\ taxonomyCall'.outcome = "threw"
            /\ taxonomyCall'.loaded
            /\ taxonomyCall'.taxonomy = << >>
            /\ taxonomyCall'.text = ""
            /\ taxonomyCall'.valid = << >> /\ taxonomyCall'.invalid = << >>
            /\ cachedTaxonomy' = << >>
      ]_vars

\* A failed load behind an invalid first file, a valid file at the next path.
C25_Witness ==
    /\ taxonomyCall.outcome = "threw"
    /\ taxonomyCall.loaded
    /\ taxonomyCall.error = "Invalid taxonomy file"
    /\ cachedTaxonomy = << >>
    /\ taxonomyFiles[1] = Invalid
    /\ taxonomyFiles[2] = Valid(TaxonomyA)

\* C26 as stated: on a loaded taxonomy getCanonicalTag returns the mapped tag for
\* a key of the synonym mapping, the input for a member of the flat tag list, and
\* throws when neither holds; validateTags never throws for an unknown tag, it
\* reports it in invalid.
C26_Canonical ==
    [][ /\ \A x \in TagOrSynonymInputs :
              (GetCanonicalTag(x) /\ cachedTaxonomy # << >>) =>
                 LET t == cachedTaxonomy[1] IN
                 IF x \in DOMAIN t.synonym_mappings
                 THEN taxonomyCall'.outcome = "returned"
                      /\ taxonomyCall'.text = t.synonym_mappings[x]
                 ELSE IF \E i \in 1..Len(t.flat_tag_list) : t.flat_tag_list[i] = x
                 THEN taxonomyCall'.outcome = "returned" /\ taxonomyCall'.text = x
                 ELSE taxonomyCall'.outcome = "threw"
        /\ \A tags \in SeqsUpTo(TagNames, 1) :
              (LoaderValidateTags(tags) /\ cachedTaxonomy # << >>) =>
                 /\ taxonomyCall'.outcome = "returned"
                 /\ \A i \in 1..Len(tags) :
                       (~\E n \in 1..Len(cachedTaxonomy[1].flat_tag_list) :
                            cachedTaxonomy[1].flat_tag_list[n] = tags[i])
                       => \E m \in 1..Len(taxonomyCall'.invalid) : taxonomyCall'.invalid[m] = tags[i]
      ]_vars

\* ================================================================ Part 7
\* The retry engine under the processors' configs, with the typed errors.

CircuitBreakerErrorName == << "Circuit", "Breaker", "Error" >>
ProcessingErrorName == << "Processing", "Error" >>

\* new CircuitBreakerError(message, service), raised by invocation id
OpenCircuit(id, service) ==
    [name |-> CircuitBreakerErrorName, id |-> id, service |-> service]

\* new ProcessingError(message, retryable), raised by invocation id
ProcessingError(id, retryable) ==
    [name |-> ProcessingErrorName, id |-> id, retryable |-> retryable]

\* The config of the retry in tagContentWithClaude, and in tagVideoWithGemini.
TextRetryConfig ==
    [ maxAttempts |-> 3, initialDelayMs |-> 1000,
      retryableErrors |-> << ThrottlingException, ServiceUnavailable >> ]

VideoRetryConfig ==
    [ maxAttempts |-> 3, initialDelayMs |-> 2000,
      retryableErrors |-> << ECONNRESET, ETIMEDOUT, NetworkError >> ]

\* No config (the defaults), the processors' configs, and the defaults with
\* another number of attempts.
ProcessorRetryConfigs ==
    { << >>, TextRetryConfig, VideoRetryConfig } \cup { [maxAttempts |-> n] : n \in 1..MaxAttempts }

\* What an invocation settles to when the operation is a breaker call or raises
\* the typed errors.
TypedOutcomes(n) ==
    { Returned(n),
      Threw([name |-> ThrottlingException, id |-> n]),
      Threw([name |-> ECONNRESET, id |-> n]),
      Threw(OpenCircuit(n, "bedrock")),
      Threw(ProcessingError(n, TRUE)),
      Threw(ProcessingError(n, FALSE)) }

NextRetryTyped ==
    \/ \E config \in ProcessorRetryConfigs : RetryWithBackoff(config)
    \/ \E o \in TypedOutcomes(Len(operationCalls) + 1), k \in 0..(RandomSteps - 1) :
          OperationSettles(o, k)
    \/ Wake

SpecRetryTyped == Init /\ [][NextRetryTyped]_vars

\* ------------------------------------------- claims: hallucination signal

\* C27 as stated: when a processor's validation of a model answer yields a
\* non-empty invalid list, it logs a HALLUCINATION DETECTED warning carrying the
\* invalid tags, the content id and the model name; with an empty invalid list it
\* logs no such warning.
C27_Signal ==
    processing.pc = "tagged" =>
        IF Len(validation.invalid) > 0
        THEN \E e \in 1..Len(processorLog) :
                /\ processorLog[e].level = "warn"
                /\ processorLog[e].message = "HALLUCINATION DETECTED"
                /\ processorLog[e].invalid_tags = validation.invalid
                /\ processorLog[e].content_id = processing.content_id
                /\ processorLog[e].model # NoModel
        ELSE processorLog = << >>

\* ------------------------------------------------ claims: breaker, again

\* C28 as stated: right after a failure recorded in HALF_OPEN the instance is
\* OPEN and getState reports successCount 0.
C28_SuccessCountDiscarded ==
    [][\A c \in Callers, o \in FnOutcomes :
         (Settle(c, o) /\ o.kind = "rejected" /\ St(ref[c]).state = "HALF_OPEN")
         => /\ getState(heap'[ref[c]]).state = "OPEN"
            /\ getState(heap'[ref[c]]).successCount = 0]_vars

\* ------------------------------------------- claims: retry, typed errors

\* The retryable list is the default one or one of the processors'.
KnownRetryableSet ==
    finalConfig.retryableErrors \in
        { DEFAULT_RETRY_CONFIG.retryableErrors, TextRetryConfig.retryableErrors,
          VideoRetryConfig.retryableErrors }

\* C29: under the default retryable list and the two processors' lists, an
\* attempt that fails with the breaker's CircuitBreakerError is the last
\* invocation: no sleep follows it and the call is rejected with that error;
\* when it is the first attempt the operation has been invoked exactly once and
\* there was no sleep at all.
C29_OpenCircuitNotRetried ==
    \A i \in 1..Invocations :
        (Failed(i) /\ RaisedBy(i).name = CircuitBreakerErrorName /\ KnownRetryableSet)
        => /\ i = Invocations
           /\ retryPc = "done"
           /\ Len(sleeps) = i - 1
           /\ retryResult.kind = "rejected"
           /\ retryResult.error = RaisedBy(i)

C29_Witness ==
    /\ retryPc = "done"
    /\ finalConfig.retryableErrors = VideoRetryConfig.retryableErrors
    /\ finalConfig.maxAttempts = 3
    /\ Invocations = 1
    /\ RaisedBy(1) = OpenCircuit(1, "bedrock")
    /\ sleeps = << >>
    /\ retryResult.error = OpenCircuit(1, "bedrock")

\* C30 as stated: an attempt that fails with a ProcessingError is retried when the
\* error's retryable flag is true and attempts remain, and ends the call, rejected
\* with that error, when the flag is false.
C30_ProcessingErrorFlag ==
    \A i \in 1..Invocations :
        (Failed(i) /\ RaisedBy(i).name = ProcessingErrorName)
        => IF RaisedBy(i).retryable /\ i < finalConfig.maxAttempts
           THEN retryPc # "done" \/ i < Invocations
           ELSE /\ i = Invocations
                /\ retryPc = "done"
                /\ retryResult.kind = "rejected"
                /\ retryResult.error = RaisedBy(i)

\* ================================================================ Part 8
\* ------------------------------------------- claims: breaker, concurrency

\* How many times the log of a step holds an event.
TimesLogged(log, e) == Cardinality({ k \in 1..Len(log) : log[k] = e })

\* The events that report a change of state of the breaker called name.
TransitionEvents(name) ==
    { Opened(name), HalfOpened(name), Recovered(name), WasReset(name) }

RejectedEvent(name) == LogEvent("warn", "Circuit breaker is OPEN, rejecting request", name)

\* The transitions C32 lists.
ListedTransition(from, to) ==
    \/ from = "CLOSED" /\ to = "OPEN"
    \/ from = "OPEN" /\ to = "HALF_OPEN"
    \/ from = "HALF_OPEN" /\ to = "CLOSED"
    \/ from = "HALF_OPEN" /\ to = "OPEN"

\* A step that changes the state of instance i by one of the listed transitions.
Transition(i) ==
    /\ i \in 1..Len(heap')
    /\ ListedTransition(St(i).state, heap'[i].state.state)

\* An execute call of c that is rejected in this step.
Rejection(c) ==
    /\ Execute(c)
    /\ rejects(heap[ref[c]], now)

\* C32 as stated: a step that makes a listed transition, or rejects an execute
\* call, emits exactly one log event naming the breaker.
C32_ExactlyOneEvent ==
    [][/\ \A i \in Instances : Transition(i) => Len(emitted') = 1
       /\ \A c \in Callers : Rejection(c) => Len(emitted') = 1]_vars

\* C32, amended: a step that makes a listed transition emits exactly one event
\* reporting a transition, and it is the event of that transition (OPENED,
\* transitioning to HALF_OPEN, CLOSED after recovery, or reset when reset() closes
\* a HALF_OPEN breaker); a step that rejects an execute call emits exactly the
\* rejection warning; every event of such a step names the breaker. The step may
\* emit 'failure recorded' or 'success in HALF_OPEN' before the transition's event.
C32_Observable ==
    [][/\ \A i \in Instances :
            Transition(i) =>
              LET name == Cfg(i).name
                  to == heap'[i].state.state
                  event == IF to = "OPEN" THEN Opened(name)
                           ELSE IF to = "HALF_OPEN" THEN HalfOpened(name)
                           ELSE IF Reset(i) THEN WasReset(name) ELSE Recovered(name)
              IN /\ TimesLogged(emitted', event) = 1
                 /\ \A e \in TransitionEvents(name) \ {event} : TimesLogged(emitted', e) = 0
                 /\ emitted'[Len(emitted')] = event
                 /\ \A k \in 1..Len(emitted') : emitted'[k].circuit_breaker = name
       /\ \A c \in Callers :
            Rejection(c) => emitted' = << RejectedEvent(Cfg(ref[c]).name) >>]_vars

\* A HALF_OPEN breaker has just been opened again by a failure: two events.
C32_Witness ==
    \E i \in Instances :
        /\ St(i).state = "OPEN"
        /\ audit[i].halfOpenOk = 1
        /\ emitted = << LogEvent("warn", "Circuit breaker failure recorded", Cfg(i).name),
                        Opened(Cfg(i).name) >>

\* C38: in every reachable state, for every interleaving of the two tasks' execute
\* calls with resets and the clock, an instance with failureThreshold >= 1 that is
\* CLOSED has failureCount < failureThreshold.
C38_ClosedUnderThreshold ==
    \A i \in Instances :
        (Cfg(i).failureThreshold >= 1 /\ St(i).state = "CLOSED")
        => St(i).failureCount < Cfg(i).failureThreshold

\* CLOSED one failure short of the threshold with a call in flight, after a reset
\* that discarded failures.
C38_Witness ==
    \E i \in Instances :
        /\ St(i).state = "CLOSED"
        /\ St(i).failureCount >= 1
        /\ St(i).failureCount = Cfg(i).failureThreshold - 1
        /\ audit[i].cleared
        /\ \E c \in Callers : pc[c] = "running" /\ ref[c] = i

\* C39: a step in which an admitted operation succeeds while its instance is OPEN
\* leaves the state OPEN and nextAttempt as it was, sets failureCount to 0 and
\* leaves successCount; every execute before nextAttempt is still one that rejects.
C39_LateSuccess ==
    [][\A c \in Callers, o \in FnOutcomes :
         (Settle(c, o) /\ o.kind = "resolved" /\ St(ref[c]).state = "OPEN")
         => /\ heap'[ref[c]].state.state = "OPEN"
            /\ heap'[ref[c]].state.nextAttempt = St(ref[c]).nextAttempt
            /\ heap'[ref[c]].state.failureCount = 0
            /\ heap'[ref[c]].state.successCount = St(ref[c]).successCount
            /\ emitted' = << >>
            /\ \A t \in 0..MaxTime :
                  t < St(ref[c]).nextAttempt => rejects(heap'[ref[c]], t)]_vars

\* An OPEN instance with failureCount 0 (only a late success makes one), before
\* nextAttempt, and the task whose operation succeeded.
C39_Witness ==
    \E c \in Callers :
        /\ ref[c] # 0
        /\ pc[c] = "done"
        /\ fnOutcome[c].kind = "resolved"
        /\ St(ref[c]).state = "OPEN"
        /\ St(ref[c]).failureCount = 0
        /\ now < St(ref[c]).nextAttempt

\* ------------------------------------------- claims: retry, sleeps, bounds

\* C33 as stated: every finished run with n invocations has performed exactly
\* n - 1 sleeps (one between each pair of consecutive invocations, none before the
\* first invocation, after a success or after the final failure).
C33_OneLessSleep ==
    retryPc = "done" => Len(sleeps) = Invocations - 1

\* What does hold of the sleeps: sleep k is started by the failure of invocation k
\* and is over before invocation k + 1; a finished run with n >= 1 invocations has
\* slept n - 1 times, and a run without any invocation (maxAttempts < 1) has not
\* slept.
SleepsBetweenAttempts ==
    /\ \A k \in 1..Len(sleeps) : k <= Invocations /\ Failed(k)
    /\ retryPc \in {"operation", "sleep"} => Len(sleeps) = Invocations
    /\ retryPc = "done" =>
         IF Invocations >= 1 THEN Len(sleeps) = Invocations - 1 ELSE sleeps = << >>
    /\ \A i \in 1..Invocations : ~Failed(i) => (i = Invocations /\ Len(sleeps) = i - 1)

\* C34 as stated: a finished call has invoked the operation at least once and at
\* most maxAttempts times (at most once when maxAttempts is below 1), and it
\* returned what an invocation returned or is rejected with an error an
\* invocation raised.
C34_AttemptBounds ==
    retryPc = "done" =>
        /\ Invocations >= 1
        /\ Invocations <= (IF finalConfig.maxAttempts >= 1 THEN finalConfig.maxAttempts ELSE 1)
        /\ \E i \in 1..Invocations : retryResult = operationCalls[i]

\* ------------------------------------------- claims: sampling terminates

\* sampleFrames is synchronous: once called, its loop keeps running.
SpecSamplingFair == SpecSampling /\ WF_vars(SampleLoop)

\* C35 as stated: a call with a duration above the cap throws without a sample,
\* and every other call, whatever the interval, leaves its loop and returns.
C35_Terminates ==
    /\ [](sampling.pc = "threw" => sampling.frames = << >>)
    /\ (sampling.pc = "loop") ~> (sampling.pc = "returned")

\* What does hold: with an interval above 0 the call returns.
SamplingTerminates ==
    (sampling.pc = "loop" /\ sampling.intervalSeconds > 0) ~> (sampling.pc = "returned")

\* ================================================================ Part 9
\* The SQS handlers: a batch of records, the shared logger.

OtherThanHandler ==
    << breakerVars, retryVars, taggingVars, routingVars, frameVars, taxonomyVars,
       composedVars >>

\* The Lambda runtime invokes handler(event, context) with the batch. The text
\* handler starts processRecord for every record at once (each runs up to its
\* first await); the video handler takes the records one after the other.
Handler(kind) ==
    /\ handlerRun.pc \in {"idle", "returned", "threw"}
    /\ LET c1 == setLambdaContext(loggerContext)
           l1 == << logEntry(c1, "processor started", << >>, 0) >>
       IN IF kind = "text"
          THEN /\ loggerContext' = mapProcessRecord(c1, l1, 1).context
               /\ handlerLog' = mapProcessRecord(c1, l1, 1).log
               /\ recordPc' = [r \in Records |-> "processing"]
          ELSE /\ loggerContext' = c1
               /\ handlerLog' = l1
               /\ recordPc' = [r \in Records |-> "pending"]
    /\ handlerRun' = [kind |-> kind, pc |-> "running"]
    /\ recordError' = [r \in Records |-> ""]
    /\ UNCHANGED OtherThanHandler

\* Video handler: `await processRecord(record.body)` for the next record of the
\* loop, the earlier ones being settled.
VideoProcessRecord(r) ==
    /\ handlerRun = [kind |-> "video", pc |-> "running"]
    /\ recordPc[r] = "pending"
    /\ \A q \in 1..(r - 1) : recordPc[q] \in {"fulfilled", "rejected"}
    /\ loggerContext' = processRecordEnter(loggerContext, handlerLog, r).context
    /\ handlerLog' = processRecordEnter(loggerContext, handlerLog, r).log
    /\ recordPc' = [recordPc EXCEPT ![r] = "processing"]
    /\ UNCHANGED << handlerRun, recordError >>
    /\ UNCHANGED OtherThanHandler

\* processRecord, the awaited work went well: logger.info('... processed
\* successfully'), finally logger.clearContext(), the promise is fulfilled.
RecordSucceeds(r) ==
    /\ handlerRun.pc = "running"
    /\ recordPc[r] = "processing"
    /\ handlerLog' = Append(handlerLog, logEntry(loggerContext, "processed successfully", << >>, r))
    /\ loggerContext' = clearContext(loggerContext)
    /\ recordPc' = [recordPc EXCEPT ![r] = "fulfilled"]
    /\ UNCHANGED << handlerRun, recordError >>
    /\ UNCHANGED OtherThanHandler

\* processRecord, the awaited work threw e: catch, logger.error('Failed to
\* process ...'), await trackMetrics.
RecordFails(r, e) ==
    /\ handlerRun.pc = "running"
    /\ recordPc[r] = "processing"
    /\ handlerLog' = Append(handlerLog, logEntry(loggerContext, "Failed to process content", << >>, r))
    /\ recordPc' = [recordPc EXCEPT ![r] = "failing"]
    /\ recordError' = [recordError EXCEPT ![r] = e]
    /\ UNCHANGED << handlerRun, loggerContext >>
    /\ UNCHANGED OtherThanHandler

\* processRecord after trackMetrics: throw error, finally logger.clearContext().
\* The video handler catches the error and logs it.
RecordRejects(r) ==
    /\ handlerRun.pc = "running"
    /\ recordPc[r] = "failing"
    /\ loggerContext' = clearContext(loggerContext)
    /\ handlerLog' =
          IF handlerRun.kind = "video"
          THEN Append(handlerLog, logEntry(clearContext(loggerContext),
                                           "Failed to process video record", << >>, 0))
          ELSE handlerLog
    /\ recordPc' = [recordPc EXCEPT ![r] = "rejected"]
    /\ UNCHANGED << handlerRun, recordError >>
    /\ UNCHANGED OtherThanHandler

\* Every record is settled: the handler logs '... completed' and its invocation
\* ends.
HandlerEnds ==
    /\ handlerRun.pc = "running"
    /\ \A r \in Records : recordPc[r] \in {"fulfilled", "rejected"}
    /\ handlerLog' = Append(handlerLog, logEntry(loggerContext, "processor completed", << >>, 0))
    /\ handlerRun' = [handlerRun EXCEPT !.pc = handlerOutcome(recordPc)]
    /\ UNCHANGED << loggerContext, recordPc, recordError >>
    /\ UNCHANGED OtherThanHandler

NextHandler ==
    \/ \E kind \in {"text", "video"} : Handler(kind)
    \/ \E r \in Records : VideoProcessRecord(r)
    \/ \E r \in Records : RecordSucceeds(r)
    \/ \E r \in Records, e \in RecordErrors : RecordFails(r, e)
    \/ \E r \in Records : RecordRejects(r)
    \/ HandlerEnds

SpecHandler == Init /\ [][NextHandler]_vars

\* ------------------------------------------ claims: handlers and the logger

\* C36 as stated: when the processing of a record failed, with any error, the
\* breaker's rejection included, the handler invocation does not end
\* successfully: it fails, so that the message is delivered again or dead-lettered.
C36_FailureReachesBoundary ==
    (handlerRun.pc # "running" /\ \E r \in Records : recordPc[r] = "rejected")
    => handlerRun.pc = "threw"

\* C37 as stated: in the text processor, every log entry made while processing a
\* record carries the trace_id and content_id of that record.
C37_LogCorrelation ==
    handlerRun.kind = "text" =>
        \A k \in 1..Len(handlerLog) :
            handlerLog[k].by # 0 =>
                /\ contextField(handlerLog[k], "trace_id") = Batch[handlerLog[k].by].trace_id
                /\ contextField(handlerLog[k], "content_id") = Batch[handlerLog[k].by].content_id

\* =============================================================== Part 10
\* breaker.execute(() => retryWithBackoff(operation, config)), as the processors
\* call the model: the retry loop is the fn of one execute call.

\* The retry config of tagContentWithClaude, merged with the defaults.
ComposedConfig == mergeConfig(TextRetryConfig)

\* Breaker configs of the composed runs.
ComposedBreakerConfigs ==
    { [failureThreshold |-> 1, successThreshold |-> 1, timeout |-> 1],
      [failureThreshold |-> 2, successThreshold |-> 0, timeout |-> 2] }

\* What an attempt settles to: a result, a retryable error, a fatal one.
AttemptOutcomes ==
    { Returned(1),
      Threw([name |-> ThrottlingException, id |-> 1]),
      Threw([name |-> PermissionDenied, id |-> 1]) }

OtherThanComposed ==
    << retryVars, taggingVars, routingVars, frameVars, taxonomyVars, handlerVars >>

OthersInFlight(c) == { d \in Callers \ {c} : pc[d] = "running" }

\* History of invocations: one more invocation of the operation, counted while
\* every attempt so far failed retryably and the breaker b is CLOSED.
Counted(from, b) ==
    IF from.onlyRetryable /\ b.state.state = "CLOSED"
    THEN [from EXCEPT !.count = @ + 1] ELSE from

\* The count starts again with an execute call made when the breaker is CLOSED
\* with failureCount 0 and no other call is in flight.
Invoke(c, b) ==
    LET fresh == b.state.state = "CLOSED" /\ b.state.failureCount = 0 /\ OthersInFlight(c) = {}
    IN  Counted(IF fresh THEN [count |-> 0, onlyRetryable |-> TRUE] ELSE invoked, b)

\* execute(fn): the synchronous prefix, and, when the call is admitted, fn():
\* retryWithBackoff up to the first invocation of the operation.
ExecuteRetry(c) ==
    /\ ExecuteStep(c)
    /\ IF rejects(heap[ref[c]], now)
       THEN UNCHANGED composedVars
       ELSE /\ retrying' = [retrying EXCEPT ![c] = [pc |-> "operation", attempt |-> 1]]
            /\ invoked' = Invoke(c, heap[ref[c]])
    /\ UNCHANGED OtherThanComposed

\* The awaited operation() of task c settles to o. When retryWithBackoff ends
\* with it (success, fatal error, last attempt) the promise of fn settles and
\* execute records the outcome; otherwise the retry sleeps and the breaker is not
\* touched.
AttemptSettles(c, o) ==
    /\ pc[c] = "running"
    /\ retrying[c].pc = "operation"
    /\ LET ended == o.kind = "resolved" \/ giveUp(ComposedConfig, retrying[c].attempt, o.error)
           final == IF o.kind = "resolved" THEN retryResolution(o) ELSE retryRejection(o.error)
       IN IF recordsOutcome(o, ended)
          THEN /\ SettleStep(c, final)
               /\ retrying' = [retrying EXCEPT ![c] = NotRetrying]
          ELSE /\ retrying' = [retrying EXCEPT ![c].pc = "sleep"]
               /\ UNCHANGED breakerVars
    /\ invoked' = [invoked EXCEPT !.onlyRetryable =
                       @ /\ o.kind = "rejected" /\ isRetryable(ComposedConfig, o.error)]
    /\ UNCHANGED OtherThanComposed

\* The sleep of task c is over: attempt++, the next invocation of the operation.
RetryWake(c) ==
    /\ retrying[c].pc = "sleep"
    /\ retrying' = [retrying EXCEPT ![c] = [pc |-> "operation", attempt |-> @.attempt + 1]]
    /\ invoked' = Counted(invoked, heap[ref[c]])
    /\ UNCHANGED breakerVars
    /\ UNCHANGED OtherThanComposed

\* Module load: getCircuitBreaker('bedrock', { failureThreshold, timeout }) with
\* the deployment's config, once for each task's module scope.
GetBreaker(c, cfg) ==
    /\ ref[c] = 0
    /\ registered["bedrock"].first \in {NoConfig, cfg}
    /\ GetCircuitBreaker(c, "bedrock", cfg)

NextComposed ==
    \/ Tick
    \/ \E c \in Callers, cfg \in ComposedBreakerConfigs : GetBreaker(c, cfg)
    \/ \E c \in Callers : ExecuteRetry(c)
    \/ \E c \in Callers, o \in AttemptOutcomes : AttemptSettles(c, o)
    \/ \E c \in Callers : RetryWake(c)

SpecComposed == Init /\ [][NextComposed]_vars

\* ----------------------------------------- claims: breaker around retry

\* The step opens a CLOSED breaker after nothing but retryable failures.
OpensAfterRetryableFailures(i) ==
    /\ i \in Instances
    /\ St(i).state = "CLOSED"
    /\ heap'[i].state.state = "OPEN"
    /\ invoked'.onlyRetryable

\* One execute call records at most one outcome: the breaker changes in a step of
\* an attempt only when that attempt ends the call, and then by one outcome; a
\* call that succeeds on a later attempt records a success and no failure.
OneOutcomePerCall ==
    \A c \in Callers, o \in AttemptOutcomes :
        AttemptSettles(c, o) =>
            LET i == ref[c] IN
            IF retrying'[c].pc = "sleep"
            THEN heap' = heap /\ audit' = audit /\ emitted' = emitted
            ELSE /\ pc'[c] = "done"
                 /\ IF o.kind = "resolved"
                    THEN /\ heap'[i].state.failureCount = 0
                         /\ audit'[i].sinceSuccess = 0
                         /\ St(i).state = "HALF_OPEN" => audit'[i].halfOpenOk = audit[i].halfOpenOk + 1
                    ELSE /\ heap'[i].state.failureCount = St(i).failureCount + 1
                         /\ audit'[i].sinceSuccess = audit[i].sinceSuccess + 1

\* C31 as stated: one execute call records at most one outcome, and when every
\* attempt since the breaker was CLOSED with no failure failed retryably, the
\* operation has been invoked exactly failureThreshold * maxAttempts times when the
\* breaker opens.
C31_ExactProduct ==
    [][/\ OneOutcomePerCall
       /\ \A i \in Instances :
            OpensAfterRetryableFailures(i) =>
              invoked'.count = Cfg(i).failureThreshold * ComposedConfig.maxAttempts]_vars

\* C31, amended: one execute call records at most one outcome (a call that
\* succeeds on a later attempt records one success and no failure), and when every
\* attempt since the breaker was CLOSED with no failure failed retryably, the
\* operation has been invoked at least failureThreshold * maxAttempts times when the
\* breaker opens: exactly that many when no other call is in flight at that
\* moment, and at most maxAttempts more for each other call in flight.
C31_Composition ==
    [][/\ OneOutcomePerCall
       /\ \A i \in Instances, c \in Callers :
            (OpensAfterRetryableFailures(i) /\ pc[c] = "running" /\ pc'[c] = "done") =>
              LET product == Cfg(i).failureThreshold * ComposedConfig.maxAttempts
                  others == Cardinality(OthersInFlight(c))
              IN /\ invoked'.count >= product
                 /\ invoked'.count <= product + others * ComposedConfig.maxAttempts]_vars

\* Threshold 2: the breaker has opened after two calls of three attempts each,
\* one after the other.
C31_Witness ==
    \E i \in Instances :
        /\ St(i).state = "OPEN"
        /\ Cfg(i).failureThreshold = 2
        /\ invoked.onlyRetryable
        /\ invoked.count = 6
        /\ \A c \in Callers : pc[c] # "running"

\* ------------------------------- claims: validation and aggregation

\* The valid half of a tag list: validateTags on its names, then the filter the
\* processors apply.
validTagsOf(tags, taxonomyTags) ==
    keepValid(tags, validateTags(tagNamesOf(tags), taxonomyTags).valid)

\* The other order: every frame's list is validated first, the frames (emptied
\* ones included) are aggregated afterwards.
validateThenAggregate(frameResults, taxonomyTags, minFrameFraction) ==
    aggregateFrameTags([f \in 1..Len(frameResults) |-> validTagsOf(frameResults[f], taxonomyTags)],
                       minFrameFraction)

\* C40: for every list of frames, every minFrameFraction and every taxonomy,
\* the valid tags of the aggregate (the video processor's order) are the aggregate
\* of the frames' valid tags: same tags, same confidences, same order.
C40_Commute ==
    aggregation.called =>
        \A taxonomyTags \in Taxonomies :
            validTagsOf(aggregation.result, taxonomyTags)
                = validateThenAggregate(aggregation.frameResults, taxonomyTags,
                                        aggregation.minFrameFraction)

\* An aggregate that holds a tag of no taxonomy beside a valid one, from frames
\* one of which validation empties under the second taxonomy.
C40_Witness ==
    /\ aggregation.called
    /\ Len(aggregation.frameResults) = 2
    /\ aggregation.frameResults[2] = << [tag |-> "sports", confidence |-> Tenths(9)] >>
    /\ \E i, j \in 1..Len(aggregation.result) :
          aggregation.result[i].tag = "aliens" /\ aggregation.result[j].tag = "sports"

====
